---- MODULE Spec2Model ----
(***************************************************************************)
(* Model of the document-conversion core of intelligence-agent:            *)
(*   NotionPublisher._split_code_at_boundaries   (chunking utility)        *)
(*   NotionPublisher._convert_to_blocks          (Markdown -> blocks)      *)
(*   NotionPublisher._block_to_text / get_page_content (blocks -> Markdown)*)
(* Texts are sequences of one-character strings.  Indices handed to the    *)
(* helpers below are Python's 0-based indices, so that the formulas read   *)
(* like the source.                                                        *)
(***************************************************************************)
EXTENDS Integers, Sequences, FiniteSets, TLC

VARIABLES
    pc,                 \* position of the running call
    code_text,          \* _split_code_at_boundaries: argument
    max_length,         \* _split_code_at_boundaries: argument
    remaining,          \* _split_code_at_boundaries: local
    chunks,             \* _split_code_at_boundaries: local / return value
    content,            \* _convert_to_blocks: argument (as passed by the caller)
    lines,              \* _convert_to_blocks: local, content.split('\n') after unescaping
    i,                  \* _convert_to_blocks: local scan index
    current_paragraph,  \* _convert_to_blocks: local accumulator
    blocks,             \* _convert_to_blocks: local / return value; the page's children
    origin,             \* for each block, the index of the source line that produced it
    para_origin,        \* the index of the first line in current_paragraph, or -1
    fragments,          \* get_page_content: the list built by the comprehension
    markdown,           \* get_page_content: return value
    calls,              \* two calls on one NotionPublisher: input, status, result
    frames,             \* the local variables of the calls, one frame per call
    log,                \* the records handed to the module's logger, by call
    children,           \* create_article: the blocks compile returned, as their positions
    batch_start,        \* _append_children: loop index i
    page,               \* the Notion page create_article makes: status, stored children
    returned,           \* create_article: what the call returned
    publish_articles,   \* publish_all_pending: the articles the query returned, in order
    article_no,         \* publish_all_pending: position of the article being published
    results,            \* publish_all_pending: local / return value
    trace,              \* the steps publish_article has run, with their outcomes
    repo,               \* the blog repository: work tree, index, local and remote commits
    database            \* the Notion database: status and published URL of each article

vars == <<pc, code_text, max_length, remaining, chunks, content, lines, i,
          current_paragraph, blocks, origin, para_origin, fragments, markdown,
          calls, frames, log, children, batch_start, page, returned,
          publish_articles, article_no, results, trace, repo, database>>

splitVars == <<code_text, max_length, remaining, chunks>>
compileVars == <<content, lines, i, current_paragraph, blocks, origin, para_origin>>
renderVars == <<fragments, markdown>>
callVars == <<calls, frames, log>>
createVars == <<children, batch_start, page, returned>>
publishVars == <<publish_articles, article_no, results, trace, repo, database>>
flowVars == <<createVars, publishVars>>

\* no page is being created
CreateIdle ==
    /\ children = <<>> /\ batch_start = 0 /\ returned = "none"
    /\ page = [exists |-> FALSE, status |-> "", stored |-> <<>>]
\* no article is being published
PublishIdle ==
    /\ publish_articles = <<>> /\ article_no = 0 /\ results = <<>> /\ trace = <<>>
    /\ repo = [worktree |-> {}, index |-> {}, local |-> {}, remote |-> {}]
    /\ database = <<>>

(***************************************************************************)
(* Bounds of the model.                                                    *)
(***************************************************************************)
MaxLength == 21     \* largest max_length handed to the chunking utility
MaxTail == 2        \* length of the freely chosen end of a chunking input
MaxLines == 3       \* lines of a document made of sample lines
MaxBlocks == 2      \* children of a page made of sample blocks

(***************************************************************************)
(* Characters and Python string helpers.                                   *)
(***************************************************************************)
NL == "\n"
BS == "\\"
DQ == "\""
\* the backquote; a TLA+ string literal cannot hold that character itself
BT == "<bq>"

Lower == {"a","b","c","d","e","f","g","h","i","j","k","l","m",
          "n","o","p","q","r","s","t","u","v","w","x","y","z"}
Upper == {"A","B","C","D","E","F","G","H","I","J","K","L","M",
          "N","O","P","Q","R","S","T","U","V","W","X","Y","Z"}
Digit == {"0","1","2","3","4","5","6","7","8","9"}

IsSpace(c) == c \in {" ", NL, "\t", "\r"}
IsAlnum(c) == c \in Lower \cup Upper \cup Digit
IsDigit(c) == c \in Digit

Min(a, b) == IF a <= b THEN a ELSE b

SetMax(S) == CHOOSE x \in S : \A y \in S : y <= x
SetMin(S) == CHOOSE x \in S : \A y \in S : x <= y

Rep(c, n) == [k \in 1..n |-> c]

\* s[a:b] for 0 <= a
Slice(s, a, b) == SubSeq(s, a + 1, Min(b, Len(s)))
\* s[a:]
From(s, a) == SubSeq(s, a + 1, Len(s))

\* the 0-based start indices of the occurrences of pat in s
Occurrences(s, pat) ==
    {k \in 0..(Len(s) - Len(pat)) : SubSeq(s, k + 1, k + Len(pat)) = pat}

\* s.rfind(pat)
RFind(s, pat) ==
    LET S == Occurrences(s, pat) IN IF S = {} THEN -1 ELSE SetMax(S)

\* s.find(pat)
Find(s, pat) ==
    LET S == Occurrences(s, pat) IN IF S = {} THEN -1 ELSE SetMin(S)

StartsWith(s, pat) == Len(s) >= Len(pat) /\ SubSeq(s, 1, Len(pat)) = pat

\* the sequences over S of length at most n
RECURSIVE SeqsUpTo(_, _)
SeqsUpTo(S, n) ==
    IF n = 0 THEN {<<>>}
    ELSE LET shorter == SeqsUpTo(S, n - 1)
         IN  shorter \cup {Append(t, c) : t \in {u \in shorter : Len(u) = n - 1}, c \in S}

\* "".join(parts)
RECURSIVE Concat(_)
Concat(parts) ==
    IF parts = <<>> THEN <<>> ELSE Head(parts) \o Concat(Tail(parts))

(***************************************************************************)
(* _split_code_at_boundaries.  The thresholds max_length * 0.8, * 0.85 and *)
(* * 0.9 are compared with integers; in double arithmetic the comparison   *)
(* k > max_length * 0.85 agrees with 100 * k > 85 * max_length for every   *)
(* max_length up to 20000 (likewise 0.8 and 0.9), so the model compares    *)
(* integers.                                                               *)
(***************************************************************************)
\* AboveFraction with every threshold halved
AboveFractionHalved(pos, percent, maxlen) == 200 * pos > percent * maxlen
AboveFraction(pos, percent, maxlen) == 100 * pos > percent * maxlen

\* PunctSplit accepting a mark at exactly 85% of maxlen
PunctSplitInclusive(current_chunk, maxlen) ==
    LET ok(punct) ==
            LET last_punct == RFind(current_chunk, <<punct>>)
                next_char_idx == last_punct + 1
            IN  /\ last_punct # -1 /\ 100 * last_punct >= 85 * maxlen
                /\ next_char_idx < Len(current_chunk)
                /\ \/ IsAlnum(current_chunk[next_char_idx + 1])
                   \/ IsSpace(current_chunk[next_char_idx + 1])
    IN  IF ok(".") THEN RFind(current_chunk, <<".">>) + 1
        ELSE IF ok(":") THEN RFind(current_chunk, <<":">>) + 1
        ELSE IF ok("!") THEN RFind(current_chunk, <<"!">>) + 1
        ELSE -1
\* lines 598-607: the loop over '.', ':', '!'
PunctSplit(current_chunk, maxlen) ==
    LET ok(punct) ==
            LET last_punct == RFind(current_chunk, <<punct>>)
                next_char_idx == last_punct + 1
            IN  /\ AboveFraction(last_punct, 85, maxlen)
                /\ next_char_idx < Len(current_chunk)
                /\ \/ IsAlnum(current_chunk[next_char_idx + 1])
                   \/ IsSpace(current_chunk[next_char_idx + 1])
    IN  IF ok(".") THEN RFind(current_chunk, <<".">>) + 1
        ELSE IF ok(":") THEN RFind(current_chunk, <<":">>) + 1
        ELSE IF ok("!") THEN RFind(current_chunk, <<"!">>) + 1
        ELSE -1

\* BoundarySplit accepting a double newline at exactly 80% of maxlen
BoundarySplitInclusive(current_chunk, maxlen) ==
    LET last_double_newline == RFind(current_chunk, <<NL, NL>>)
        last_semicolon == RFind(current_chunk, <<";">>)
    IN  IF last_double_newline # -1 /\ 100 * last_double_newline >= 80 * maxlen
        THEN last_double_newline + 2
        ELSE IF AboveFraction(last_semicolon, 85, maxlen)
             THEN last_semicolon + 1
             ELSE PunctSplit(current_chunk, maxlen)
\* lines 585-607: rules 1 to 3
BoundarySplit(current_chunk, maxlen) ==
    LET last_double_newline == RFind(current_chunk, <<NL, NL>>)
        last_semicolon == RFind(current_chunk, <<";">>)
    IN  IF AboveFraction(last_double_newline, 80, maxlen)
        THEN last_double_newline + 2
        ELSE IF AboveFraction(last_semicolon, 85, maxlen)
             THEN last_semicolon + 1
             ELSE PunctSplit(current_chunk, maxlen)

\* NewlineSplit accepting a newline at exactly 90% of maxlen
NewlineSplitInclusive(current_chunk, maxlen) ==
    LET last_newline == RFind(current_chunk, <<NL>>)
    IN  IF last_newline # -1 /\ 100 * last_newline >= 90 * maxlen
        THEN last_newline + 1 ELSE -1
\* lines 609-613: rule 4
NewlineSplit(current_chunk, maxlen) ==
    LET last_newline == RFind(current_chunk, <<NL>>)
    IN  IF AboveFraction(last_newline, 90, maxlen) THEN last_newline + 1 ELSE -1

\* SplitPos with the candidate window one character too long
SplitPosWideWindow(rem, maxlen) ==
    LET current_chunk == Slice(rem, 0, maxlen + 1)
        bpos == BoundarySplit(current_chunk, maxlen)
        npos == IF bpos = -1 THEN NewlineSplit(current_chunk, maxlen) ELSE bpos
    IN  IF npos = -1 THEN maxlen ELSE npos

\* SplitPos without the hard cut as the fallback
SplitPosNoFallback(rem, maxlen) ==
    LET current_chunk == Slice(rem, 0, maxlen)
        bpos == BoundarySplit(current_chunk, maxlen)
        npos == IF bpos = -1 THEN NewlineSplit(current_chunk, maxlen) ELSE bpos
    IN  IF npos = -1 THEN 0 ELSE npos

\* lines 581-617: split_pos of one loop iteration
SplitPos(rem, maxlen) ==
    LET current_chunk == Slice(rem, 0, maxlen)
        bpos == BoundarySplit(current_chunk, maxlen)
        npos == IF bpos = -1 THEN NewlineSplit(current_chunk, maxlen) ELSE bpos
    IN  IF npos = -1 THEN maxlen ELSE npos

\* lines 619-620: chunks.append(remaining[:split_pos])
TakeChunk(rem, split_pos) == Slice(rem, 0, split_pos)
\* DropChunk that also drops the character after the split point
DropChunkSkipping(rem, split_pos) == From(rem, split_pos + 1)
\* lines 619-620: remaining = remaining[split_pos:]
DropChunk(rem, split_pos) == From(rem, split_pos)

\* lines 622-624: if remaining: chunks.append(remaining)
AppendRest(cs, rem) == IF rem # <<>> THEN Append(cs, rem) ELSE cs

\* lines 579-624 as a function: the loop and the final append
RECURSIVE SplitLoop(_, _, _)
SplitLoop(cs, rem, maxlen) ==
    IF Len(rem) > maxlen
    THEN LET split_pos == SplitPos(rem, maxlen)
         IN  SplitLoop(Append(cs, TakeChunk(rem, split_pos)),
                       DropChunk(rem, split_pos), maxlen)
    ELSE AppendRest(cs, rem)

\* lines 571-627
SplitCodeAtBoundaries(text, maxlen) ==
    IF Len(text) <= maxlen THEN <<text>> ELSE SplitLoop(<<>>, text, maxlen)

(***************************************************************************)
(* The chunking utility as a state machine: one action per loop iteration. *)
(***************************************************************************)
SplitAlphabet == {"a", NL, ";", ".", ":", "!"}

\* ends in which a boundary of one rule is followed by one of a later rule
SplitProbes == {<<NL, NL, ";">>, <<NL, NL, ".">>, <<";", ".", NL>>, <<".", ":", "!">>}
\* texts: a run of letters, then a freely chosen end or a probe, then at most
\* two letters
SplitInputs ==
    {Rep("a", p) \o t \o Rep("a", q) :
        p \in 0..(MaxLength - 2),
        t \in SeqsUpTo(SplitAlphabet, MaxTail) \cup SplitProbes,
        q \in 0..2}

InitSplit ==
    /\ pc = "split_entry"
    /\ code_text \in SplitInputs
    /\ max_length \in 1..MaxLength
    /\ remaining = <<>>
    /\ chunks = <<>>
    /\ content = <<>> /\ lines = <<>> /\ i = 0 /\ current_paragraph = <<>>
    /\ blocks = <<>> /\ origin = <<>> /\ para_origin = -1
    /\ fragments = <<>> /\ markdown = <<>>
    /\ calls = <<>> /\ frames = <<>> /\ log = <<>>
    /\ CreateIdle /\ PublishIdle

\* lines 573-574
SplitReturnWhole ==
    /\ pc = "split_entry"
    /\ Len(code_text) <= max_length
    /\ chunks' = <<code_text>>
    /\ pc' = "split_done"
    /\ UNCHANGED <<code_text, max_length, remaining>>
    /\ UNCHANGED <<compileVars, renderVars, callVars, flowVars>>

\* lines 576-577
SplitEnter ==
    /\ pc = "split_entry"
    /\ Len(code_text) > max_length
    /\ chunks' = <<>>
    /\ remaining' = code_text
    /\ pc' = "split_loop"
    /\ UNCHANGED <<code_text, max_length>>
    /\ UNCHANGED <<compileVars, renderVars, callVars, flowVars>>

\* lines 579-620: one iteration of the while loop
SplitIterate ==
    /\ pc = "split_loop"
    /\ Len(remaining) > max_length
    /\ LET split_pos == SplitPos(remaining, max_length)
       IN  /\ chunks' = Append(chunks, TakeChunk(remaining, split_pos))
           /\ remaining' = DropChunk(remaining, split_pos)
    /\ pc' = "split_loop"
    /\ UNCHANGED <<code_text, max_length>>
    /\ UNCHANGED <<compileVars, renderVars, callVars, flowVars>>

\* lines 622-627
SplitFinish ==
    /\ pc = "split_loop"
    /\ Len(remaining) <= max_length
    /\ chunks' = AppendRest(chunks, remaining)
    /\ pc' = "split_done"
    /\ UNCHANGED <<code_text, max_length, remaining>>
    /\ UNCHANGED <<compileVars, renderVars, callVars, flowVars>>

NextSplit == SplitReturnWhole \/ SplitEnter \/ SplitIterate \/ SplitFinish

SpecSplit == InitSplit /\ [][NextSplit]_vars

(***************************************************************************)
(* More Python string helpers.                                             *)
(***************************************************************************)
UpperSeq == <<"A","B","C","D","E","F","G","H","I","J","K","L","M",
              "N","O","P","Q","R","S","T","U","V","W","X","Y","Z">>
LowerSeq == <<"a","b","c","d","e","f","g","h","i","j","k","l","m",
              "n","o","p","q","r","s","t","u","v","w","x","y","z">>

\* s.lower()
ToLower(s) ==
    [k \in 1..Len(s) |->
        IF s[k] \in Upper
        THEN LowerSeq[CHOOSE n \in 1..26 : UpperSeq[n] = s[k]]
        ELSE s[k]]

\* s.rstrip()
RECURSIVE RStrip(_)
RStrip(s) ==
    IF s # <<>> /\ IsSpace(s[Len(s)]) THEN RStrip(SubSeq(s, 1, Len(s) - 1)) ELSE s

\* s.lstrip()
RECURSIVE LStrip(_)
LStrip(s) ==
    IF s # <<>> /\ IsSpace(s[1]) THEN LStrip(Tail(s)) ELSE s

\* s.strip()
Strip(s) == LStrip(RStrip(s))

\* pat in s
Contains(s, pat) == Occurrences(s, pat) # {}

\* s.replace(pat, rep): the occurrences from the left, not overlapping
RECURSIVE Replace(_, _, _)
Replace(s, pat, rep) ==
    LET k == Find(s, pat)
    IN  IF k = -1 THEN s
        ELSE Slice(s, 0, k) \o rep \o Replace(From(s, k + Len(pat)), pat, rep)

\* s.split(sep)
RECURSIVE Split(_, _)
Split(s, sep) ==
    LET k == Find(s, sep)
    IN  IF k = -1 THEN <<s>>
        ELSE <<Slice(s, 0, k)>> \o Split(From(s, k + Len(sep)), sep)

\* sep.join(parts)
RECURSIVE Join(_, _)
Join(parts, sep) ==
    IF parts = <<>> THEN <<>>
    ELSE IF Len(parts) = 1 THEN parts[1]
    ELSE parts[1] \o sep \o Join(Tail(parts), sep)

\* d.get(key, default) for a dictionary given as a set of <<key, value>> pairs
DictGet(d, key, default) ==
    IF \E p \in d : p[1] = key THEN (CHOOSE p \in d : p[1] = key)[2] ELSE default

(***************************************************************************)
(* String literals of the source, as character sequences.                  *)
(***************************************************************************)
s_python == <<"p", "y", "t", "h", "o", "n">>
s_javascript == <<"j", "a", "v", "a", "s", "c", "r", "i", "p", "t">>
s_js == <<"j", "s">>
s_typescript == <<"t", "y", "p", "e", "s", "c", "r", "i", "p", "t">>
s_ts == <<"t", "s">>
s_java == <<"j", "a", "v", "a">>
s_c == <<"c">>
s_cpp == <<"c", "p", "p">>
s_cplusplus == <<"c", "+", "+">>
s_csharp_tag == <<"c", "#">>
s_go == <<"g", "o">>
s_rust == <<"r", "u", "s", "t">>
s_ruby == <<"r", "u", "b", "y">>
s_php == <<"p", "h", "p">>
s_swift == <<"s", "w", "i", "f", "t">>
s_kotlin == <<"k", "o", "t", "l", "i", "n">>
s_scala == <<"s", "c", "a", "l", "a">>
s_shell == <<"s", "h", "e", "l", "l">>
s_bash == <<"b", "a", "s", "h">>
s_sql == <<"s", "q", "l">>
s_html == <<"h", "t", "m", "l">>
s_css == <<"c", "s", "s">>
s_json == <<"j", "s", "o", "n">>
s_yaml == <<"y", "a", "m", "l">>
s_xml == <<"x", "m", "l">>
s_markdown == <<"m", "a", "r", "k", "d", "o", "w", "n">>
s_md == <<"m", "d">>
s_dart == <<"d", "a", "r", "t">>
s_lua == <<"l", "u", "a">>
s_plain_text == <<"p", "l", "a", "i", "n", " ", "t", "e", "x", "t">>
s_text == <<"t", "e", "x", "t">>
s_csharp == <<"c", "s", "h", "a", "r", "p">>
s_mermaid == <<"m", "e", "r", "m", "a", "i", "d">>
s_graph == <<"g", "r", "a", "p", "h">>
s_flowchart == <<"f", "l", "o", "w", "c", "h", "a", "r", "t">>
s_sequenceDiagram == <<"s", "e", "q", "u", "e", "n", "c", "e", "D", "i", "a", "g", "r", "a", "m">>
s_classDiagram == <<"c", "l", "a", "s", "s", "D", "i", "a", "g", "r", "a", "m">>
s_stateDiagram == <<"s", "t", "a", "t", "e", "D", "i", "a", "g", "r", "a", "m">>
s_stateDiagram_v2 == <<"s", "t", "a", "t", "e", "D", "i", "a", "g", "r", "a", "m", "-", "v", "2">>
s_entityRelationshipDiagram == <<"e", "n", "t", "i", "t", "y", "R", "e", "l", "a", "t", "i", "o", "n", "s", "h", "i", "p", "D", "i", "a", "g", "r", "a", "m">>
s_userJourney == <<"u", "s", "e", "r", "J", "o", "u", "r", "n", "e", "y">>
s_gantt == <<"g", "a", "n", "t", "t">>
s_pie == <<"p", "i", "e">>
s_mindmap == <<"m", "i", "n", "d", "m", "a", "p">>
s_timeline == <<"t", "i", "m", "e", "l", "i", "n", "e">>
s_gitgraph == <<"g", "i", "t", "g", "r", "a", "p", "h">>
s_erDiagram == <<"e", "r", "D", "i", "a", "g", "r", "a", "m">>
s_journey == <<"j", "o", "u", "r", "n", "e", "y">>
s_pieChart == <<"p", "i", "e", "C", "h", "a", "r", "t">>
s_requirementDiagram == <<"r", "e", "q", "u", "i", "r", "e", "m", "e", "n", "t", "D", "i", "a", "g", "r", "a", "m">>
s_git == <<"g", "i", "t">>
s_subgraph == <<"s", "u", "b", "g", "r", "a", "p", "h">>
s_end_bracket == <<"e", "n", "d", "[">>
s_end_semicolon == <<"e", "n", "d", ";">>

s_details_open == <<"<", "d", "e", "t", "a", "i", "l", "s", ">", NL, "<", "s", "u", "m", "m", "a", "r", "y", ">">>
s_details_close == <<"<", "/", "s", "u", "m", "m", "a", "r", "y", ">", NL, NL>>
mermaid_diagram_alt == <<"M", "e", "r", "m", "a", "i", "d", " ", "D", "i", "a", "g", "r", "a", "m">>

\* lines 227-238: the dictionary as a set of <<key, value>> pairs
notion_langs ==
    {<<s_python, s_python>>, <<s_javascript, s_javascript>>, <<s_js, s_javascript>>,
     <<s_typescript, s_typescript>>, <<s_ts, s_typescript>>, <<s_java, s_java>>,
     <<s_c, s_c>>, <<s_cpp, s_cplusplus>>, <<s_cplusplus, s_cplusplus>>,
     <<s_csharp_tag, s_csharp_tag>>, <<s_go, s_go>>, <<s_rust, s_rust>>,
     <<s_ruby, s_ruby>>, <<s_php, s_php>>, <<s_swift, s_swift>>,
     <<s_kotlin, s_kotlin>>, <<s_scala, s_scala>>, <<s_shell, s_shell>>,
     <<s_bash, s_bash>>, <<s_sql, s_sql>>, <<s_html, s_html>>,
     <<s_css, s_css>>, <<s_json, s_json>>, <<s_yaml, s_yaml>>,
     <<s_xml, s_xml>>, <<s_markdown, s_markdown>>, <<s_md, s_markdown>>,
     <<s_dart, s_dart>>, <<s_lua, s_lua>>}

\* lines 449-475: the dictionary as a set of <<key, value>> pairs
lang_map ==
    {<<s_plain_text, s_text>>, <<s_python, s_python>>, <<s_javascript, s_javascript>>,
     <<s_typescript, s_typescript>>, <<s_java, s_java>>, <<s_c, s_c>>,
     <<s_cplusplus, s_cpp>>, <<s_csharp_tag, s_csharp>>, <<s_go, s_go>>,
     <<s_rust, s_rust>>, <<s_ruby, s_ruby>>, <<s_php, s_php>>,
     <<s_swift, s_swift>>, <<s_kotlin, s_kotlin>>, <<s_scala, s_scala>>,
     <<s_shell, s_bash>>, <<s_bash, s_bash>>, <<s_sql, s_sql>>,
     <<s_html, s_html>>, <<s_css, s_css>>, <<s_json, s_json>>,
     <<s_yaml, s_yaml>>, <<s_xml, s_xml>>, <<s_markdown, s_markdown>>,
     <<s_mermaid, s_mermaid>>}

\* lines 407-416
mermaid_keywords ==
    {s_graph, s_flowchart, s_sequenceDiagram, s_classDiagram,
     s_stateDiagram, s_stateDiagram_v2, s_entityRelationshipDiagram, s_userJourney,
     s_gantt, s_pie, s_mindmap, s_timeline,
     s_gitgraph, s_erDiagram, s_journey, s_pieChart,
     s_requirementDiagram, s_git, s_subgraph, s_end_bracket,
     s_end_semicolon}

\* line 508: the two marks of the diagram notice; a character outside ASCII is
\* written as its code point
notice_mermaid ==
    <<"M", "e", "r", "m", "a", "i", "d", " ", "U+B2E4", "U+C774", "U+C5B4", "U+ADF8", "U+B7A8">>
notice_rendered ==
    <<"U+BE14", "U+B85C", "U+ADF8", "U+C5D0", "U+C11C", " ", "U+C790", "U+B3D9", "U+C73C", "U+B85C", " ", "U+B2E4", "U+C774", "U+C5B4", "U+ADF8", "U+B7A8", "U+C73C", "U+B85C", " ", "U+B80C", "U+B354", "U+B9C1", "U+B429", "U+B2C8", "U+B2E4">>

(***************************************************************************)
(* Blocks.  A block is the dictionary the Notion API exchanges; the record *)
(* holds the entries the program reads or writes:                          *)
(*   type          block['type']                                          *)
(*   present       block[type] exists                                      *)
(*   rich          'rich_text' is a key of block[type]                     *)
(*   text          the contents of block[type]['rich_text'], concatenated  *)
(*   language      block['code']['language'], Absent when there is none    *)
(*   image_type    block['image']['type'], "" when there is none            *)
(*   external_url  block['image']['external']['url'], empty when none      *)
(*   file_url      block['image']['file']['url'], empty when none          *)
(*   checked       block['to_do']['checked']                               *)
(*   emoji         block['callout']['icon']['emoji'], Absent when none     *)
(*   rows          block['table']['table_row']: for each row whether it    *)
(*                 has a 'table_row' entry, and the texts of its cells     *)
(***************************************************************************)
Absent == <<"<absent>">>
FENCE == <<BT, BT, BT>>

\* the block dictionaries built in _convert_to_blocks and _create_paragraph_block
Block(type, text, language) ==
    [type |-> type, present |-> TRUE, rich |-> TRUE, text |-> text,
     language |-> language, image_type |-> "", external_url |-> <<>>,
     file_url |-> <<>>, checked |-> FALSE, emoji |-> Absent, rows |-> <<>>]

max_code_length == 2000
paragraph_limit == 2000

\* lines 321-328
CreateParagraphBlock(text) ==
    Block("paragraph", Slice(text, 0, paragraph_limit), Absent)

\* lines 179-183: flush_paragraph, the blocks afterwards
FlushParagraph(bs, para) ==
    IF para # <<>> THEN Append(bs, CreateParagraphBlock(Join(para, <<" ">>))) ELSE bs

\* lines 179-183: flush_paragraph, the origins afterwards
FlushOrigin(os, para, from) ==
    IF para # <<>> THEN Append(os, from) ELSE os

\* line 171
Unescape(text) ==
    Replace(Replace(Replace(text, <<BS, "n">>, <<NL>>), <<BS, DQ>>, <<DQ>>),
            <<BS, BS>>, <<BS>>)

\* line 186
LineAt(ls, k) == RStrip(ls[k + 1])

\* lines 200-204: the index of the closing fence of the fence opened at line k,
\* or len(lines) when there is none
FenceEnd(ls, k) ==
    LET closing == {j \in (k + 1)..(Len(ls) - 1) : StartsWith(ls[j + 1], FENCE)}
    IN  IF closing = {} THEN Len(ls) ELSE SetMin(closing)

\* line 197
FenceLang(line) ==
    LET label == Strip(From(line, 3)) IN IF label # <<>> THEN label ELSE s_plain_text

\* FenceCode taking the last line of the text for a closing fence
FenceCodeClosedOnly(ls, k) ==
    Join(SubSeq(ls, k + 2, Min(FenceEnd(ls, k), Len(ls) - 1)), <<NL>>)

\* lines 201-207
FenceCode(ls, k) == Join(SubSeq(ls, k + 2, FenceEnd(ls, k)), <<NL>>)

\* line 210
IsMermaidFence(line) == ToLower(FenceLang(line)) = s_mermaid

\* MermaidBlocks with the size-splitting of ordinary code applied
MermaidBlocksSplitting(code) ==
    IF Len(code) <= 2000
    THEN <<Block("code", code, s_javascript)>>
    ELSE LET cs == SplitCodeAtBoundaries(code, 2000)
         IN  [k \in 1..Len(cs) |-> Block("code", cs[k], s_javascript)]

\* lines 214-221
MermaidBlocks(code) == <<Block("code", code, s_javascript)>>

\* line 240
MapLanguage(lang) == DictGet(notion_langs, ToLower(lang), s_plain_text)

\* CodeBlocks cutting an oversized payload the way paragraphs are cut
CodeBlocksTruncating(code, lang) ==
    <<Block("code", Slice(code, 0, max_code_length), lang)>>

\* lines 245-267: the code blocks of an ordinary fence
CodeBlocks(code, lang) ==
    IF Len(code) <= max_code_length
    THEN <<Block("code", code, lang)>>
    ELSE LET cs == SplitCodeAtBoundaries(code, max_code_length)
         IN  [k \in 1..Len(cs) |-> Block("code", cs[k], lang)]

\* lines 273-311: the block type a non-blank line outside a fence gives, or
\* "text" when the line goes to the paragraph accumulator
LineType(line) ==
    IF StartsWith(line, <<"#", " ">>) THEN "heading_1"
    ELSE IF StartsWith(line, <<"#", "#", " ">>) THEN "heading_2"
    ELSE IF StartsWith(line, <<"#", "#", "#", " ">>) THEN "heading_3"
    ELSE IF StartsWith(line, <<"-", " ">>) \/ StartsWith(line, <<"*", " ">>)
         THEN "bulleted_list_item"
    ELSE IF IsDigit(line[1]) /\ StartsWith(line, <<".", " ">>)
         THEN "numbered_list_item"
    ELSE IF StartsWith(line, <<">", " ">>) THEN "quote"
    ELSE "text"

\* lines 277-310: the text of the block, line[n:].strip()
LineText(line) ==
    CASE LineType(line) = "heading_2" -> Strip(From(line, 3))
      [] LineType(line) = "heading_3" -> Strip(From(line, 4))
      [] OTHER -> Strip(From(line, 2))

\* lines 273-311: the blocks after a structural line
StructuralBlocks(bs, para, line) ==
    Append(FlushParagraph(bs, para), Block(LineType(line), LineText(line), Absent))

(***************************************************************************)
(* _convert_to_blocks as a state machine: one action per scanned line.     *)
(***************************************************************************)
\* lines 171-177
CompileStart ==
    /\ pc = "compile_entry"
    /\ lines' = Split(Unescape(content), <<NL>>)
    /\ i' = 0
    /\ current_paragraph' = <<>>
    /\ para_origin' = -1
    /\ blocks' = <<>>
    /\ origin' = <<>>
    /\ pc' = "scan"
    /\ UNCHANGED <<content, splitVars, renderVars, callVars, flowVars>>

\* lines 189-192
BlankLine ==
    /\ pc = "scan"
    /\ i < Len(lines)
    /\ LineAt(lines, i) = <<>>
    /\ blocks' = FlushParagraph(blocks, current_paragraph)
    /\ origin' = FlushOrigin(origin, current_paragraph, para_origin)
    /\ current_paragraph' = <<>>
    /\ para_origin' = -1
    /\ i' = i + 1
    /\ UNCHANGED <<pc, content, lines, splitVars, renderVars, callVars, flowVars>>

\* lines 195-224: a fence labelled mermaid
MermaidFence ==
    /\ pc = "scan"
    /\ i < Len(lines)
    /\ LET line == LineAt(lines, i)
       IN  /\ StartsWith(line, FENCE)
           /\ IsMermaidFence(line)
           /\ LET flushed == FlushParagraph(blocks, current_paragraph)
                  new == MermaidBlocks(FenceCode(lines, i))
              IN  /\ blocks' = flushed \o new
                  /\ origin' = FlushOrigin(origin, current_paragraph, para_origin)
                                   \o [k \in 1..Len(new) |-> i]
    /\ current_paragraph' = <<>>
    /\ para_origin' = -1
    /\ i' = FenceEnd(lines, i) + 1
    /\ UNCHANGED <<pc, content, lines, splitVars, renderVars, callVars, flowVars>>

\* lines 195-207 and 226-270: any other fence
CodeFence ==
    /\ pc = "scan"
    /\ i < Len(lines)
    /\ LET line == LineAt(lines, i)
       IN  /\ StartsWith(line, FENCE)
           /\ ~IsMermaidFence(line)
           /\ LET flushed == FlushParagraph(blocks, current_paragraph)
                  new == CodeBlocks(FenceCode(lines, i), MapLanguage(FenceLang(line)))
              IN  /\ blocks' = flushed \o new
                  /\ origin' = FlushOrigin(origin, current_paragraph, para_origin)
                                   \o [k \in 1..Len(new) |-> i]
    /\ current_paragraph' = <<>>
    /\ para_origin' = -1
    /\ i' = FenceEnd(lines, i) + 1
    /\ UNCHANGED <<pc, content, lines, splitVars, renderVars, callVars, flowVars>>

\* lines 273-311 and 316: a heading, list item or quote
StructuralLine ==
    /\ pc = "scan"
    /\ i < Len(lines)
    /\ LET line == LineAt(lines, i)
       IN  /\ line # <<>>
           /\ ~StartsWith(line, FENCE)
           /\ LineType(line) # "text"
           /\ blocks' = StructuralBlocks(blocks, current_paragraph, line)
           /\ origin' = Append(FlushOrigin(origin, current_paragraph, para_origin), i)
    /\ current_paragraph' = <<>>
    /\ para_origin' = -1
    /\ i' = i + 1
    /\ UNCHANGED <<pc, content, lines, splitVars, renderVars, callVars, flowVars>>

\* lines 313-316
TextLine ==
    /\ pc = "scan"
    /\ i < Len(lines)
    /\ LET line == LineAt(lines, i)
       IN  /\ line # <<>>
           /\ ~StartsWith(line, FENCE)
           /\ LineType(line) = "text"
           /\ current_paragraph' = Append(current_paragraph, line)
    /\ para_origin' = IF current_paragraph = <<>> THEN i ELSE para_origin
    /\ i' = i + 1
    /\ UNCHANGED <<pc, content, lines, blocks, origin, splitVars, renderVars, callVars, flowVars>>

\* lines 318-319
CompileFinish ==
    /\ pc = "scan"
    /\ i >= Len(lines)
    /\ blocks' = FlushParagraph(blocks, current_paragraph)
    /\ origin' = FlushOrigin(origin, current_paragraph, para_origin)
    /\ current_paragraph' = <<>>
    /\ para_origin' = -1
    /\ pc' = "stored"
    /\ UNCHANGED <<content, lines, i, splitVars, renderVars, callVars, flowVars>>

NextCompile ==
    \/ CompileStart \/ BlankLine \/ MermaidFence \/ CodeFence
    \/ StructuralLine \/ TextLine \/ CompileFinish

(***************************************************************************)
(* _block_to_text.  A call either returns a text or raises.                *)
(***************************************************************************)
Returns(text) == [raised |-> "", text |-> text]
Raises(exception) == [raised |-> exception, text |-> <<>>]

\* lines 6-14: the names bound at module level by the imports
ImportedNames ==
    {"requests", "subprocess", "tempfile", "base64", "Path", "Dict", "Optional",
     "List", "datetime", "NOTION_API_KEY", "NOTION_DATABASE_ID", "BLOG_REPO_PATH",
     "BLOG_URL", "setup_logger"}

\* lines 16-18: the other names bound at module level
ModuleNames == ImportedNames \cup {"logger", "NotionPublisher"}

\* \w of the regular expressions
IsWord(c) == IsAlnum(c) \/ c = "_"

\* line 436: a match of \w+\s*--?>\s*\w+
MatchesArrow(s) ==
    \E b \in 1..Len(s) :
        /\ s[b] = "-"
        /\ LET gt == IF b + 1 <= Len(s) /\ s[b + 1] = "-" THEN b + 2 ELSE b + 1
               before == {k \in 1..(b - 1) : ~IsSpace(s[k])}
               after == {k \in (gt + 1)..Len(s) : ~IsSpace(s[k])}
           IN  /\ gt <= Len(s) /\ s[gt] = ">"
               /\ before # {} /\ IsWord(s[SetMax(before)])
               /\ after # {} /\ IsWord(s[SetMin(after)])

\* lines 439-441: a match of \w+ open [^close]+ close
MatchesNode(s, open, close) ==
    \E b \in 2..(Len(s) - 2) :
        /\ s[b] = open
        /\ IsWord(s[b - 1])
        /\ s[b + 1] # close
        /\ \E e \in (b + 2)..Len(s) : s[e] = close

\* lines 436-442: re.search is reached with the name re unbound
SearchPatterns(s) ==
    IF "re" \notin ModuleNames THEN Raises("NameError")
    ELSE IF \/ MatchesArrow(s)
            \/ MatchesNode(s, "[", "]")
            \/ MatchesNode(s, "(", ")")
            \/ MatchesNode(s, "{", "}")
         THEN Returns(<<"T">>)
         ELSE Returns(<<>>)

\* lines 423-427
StartsWithKeyword(stripped_content) ==
    LET first_line == IF stripped_content # <<>>
                      THEN Strip(Split(stripped_content, <<NL>>)[1])
                      ELSE <<>>
    IN  \E keyword \in mermaid_keywords :
            \/ StartsWith(first_line, keyword)
            \/ StartsWith(first_line, keyword \o <<" ">>)

\* IsMermaid looking for diagram content whatever the language
IsMermaidAnyLanguage(language, code_content) ==
    LET stripped_content == Strip(code_content)
    IN  IF StartsWithKeyword(stripped_content) THEN "yes"
        ELSE IF Contains(ToLower(stripped_content), s_subgraph) THEN "yes"
        ELSE LET found == SearchPatterns(stripped_content)
             IN  IF found.raised # "" THEN found.raised
                 ELSE IF found.text # <<>> THEN "yes" ELSE "no"
\* lines 419-442: is_mermaid, as "yes", "no" or the exception raised
IsMermaid(language, code_content) ==
    LET lang_lower == ToLower(language)
        stripped_content == Strip(code_content)
    IN  IF lang_lower # s_javascript THEN "no"
        ELSE IF StartsWithKeyword(stripped_content) THEN "yes"
        ELSE IF Contains(ToLower(stripped_content), s_subgraph) THEN "yes"
        ELSE LET found == SearchPatterns(stripped_content)
             IN  IF found.raised # "" THEN found.raised
                 ELSE IF found.text # <<>> THEN "yes" ELSE "no"

\* lines 446 and 477
FencedBlock(label, code_content) ==
    FENCE \o label \o <<NL>> \o code_content \o <<NL>> \o FENCE

\* lines 389-477
CodeToText(b) ==
    LET language == IF b.language = Absent THEN s_plain_text ELSE b.language
        code_content == b.text
        is_mermaid == IsMermaid(language, code_content)
    IN  IF is_mermaid = "yes" THEN Returns(FencedBlock(s_mermaid, code_content))
        ELSE IF is_mermaid = "no"
             THEN Returns(FencedBlock(DictGet(lang_map, language, s_text), code_content))
             ELSE Raises(is_mermaid)

\* lines 480-495
ImageToText(b) ==
    LET picture(url) == <<NL, "!", "[">> \o mermaid_diagram_alt \o <<"]", "(">>
                            \o url \o <<")", NL>>
    IN  IF b.image_type = "external" /\ b.external_url # <<>>
        THEN picture(b.external_url)
        ELSE IF b.image_type = "file" /\ b.file_url # <<>>
             THEN picture(b.file_url)
             ELSE <<>>

\* lines 547-564: the Markdown rows of the table rows from index k on
RECURSIVE TableRows(_, _)
TableRows(rows, k) ==
    IF k > Len(rows) THEN <<>>
    ELSE LET cell_texts == [c \in 1..Len(rows[k].cells) |-> Strip(rows[k].cells[c])]
             row == <<"|", " ">> \o Join(cell_texts, <<" ", "|", " ">>) \o <<" ", "|">>
             separator == <<"|">>
                 \o Join([c \in 1..Len(cell_texts) |-> <<" ", "-", "-", "-", " ">>], <<"|">>)
                 \o <<"|">>
         IN  (IF ~rows[k].present THEN <<>>
              ELSE IF k = 1 THEN <<row, separator>>
              ELSE <<row>>) \o TableRows(rows, k + 1)

\* lines 539-569
ConvertTableToMarkdown(rows) ==
    IF rows = <<>> THEN <<>> ELSE Join(TableRows(rows, 1), <<NL>>)

\* line 508
IsDiagramNotice(text) ==
    Contains(text, notice_mermaid) /\ Contains(text, notice_rendered)

\* lines 502-537
RichTextToText(b) ==
    LET text == b.text
    IN  CASE b.type = "paragraph" -> IF IsDiagramNotice(text) THEN <<>> ELSE text
          [] b.type = "heading_1" -> <<"#", " ">> \o text
          [] b.type = "heading_2" -> <<"#", "#", " ">> \o text
          [] b.type = "heading_3" -> <<"#", "#", "#", " ">> \o text
          [] b.type = "bulleted_list_item" -> <<"-", " ">> \o text
          [] b.type = "numbered_list_item" -> <<"1", ".", " ">> \o text
          [] b.type = "to_do" ->
                (IF b.checked THEN <<"-", " ", "[", "x", "]">>
                              ELSE <<"-", " ", "[", " ", "]">>) \o <<" ">> \o text
          [] b.type = "quote" -> <<">", " ">> \o text
          [] b.type = "callout" ->
                <<">", " ">> \o (IF b.emoji = Absent THEN <<"U+1F4A1">> ELSE b.emoji)
                    \o <<" ">> \o text
          [] b.type = "divider" -> <<"-", "-", "-">>
          [] b.type = "toggle" ->
                s_details_open \o text \o s_details_close
          [] b.type = "synct_atomic_block" -> FENCE \o text \o <<NL>> \o FENCE
          [] OTHER -> <<>>

\* lines 382-537
BlockToText(b) ==
    IF ~b.present THEN Returns(<<>>)
    ELSE IF b.type = "code" THEN CodeToText(b)
    ELSE IF b.type = "image" THEN Returns(ImageToText(b))
    ELSE IF b.type = "table" THEN Returns(ConvertTableToMarkdown(b.rows))
    ELSE IF b.rich THEN Returns(RichTextToText(b))
    ELSE Returns(<<>>)

(***************************************************************************)
(* get_page_content as a state machine: the request, then one action per   *)
(* element of the list comprehension, then the join.                       *)
(***************************************************************************)
\* lines 376-377: the request returns the page's children
FetchChildren ==
    /\ pc = "stored"
    /\ fragments' = <<>>
    /\ pc' = "render"
    /\ UNCHANGED <<markdown, splitVars, compileVars, callVars, flowVars>>

\* lines 376 and 379-380: the request raises
FetchFails ==
    /\ pc = "stored"
    /\ markdown' = <<>>
    /\ pc' = "fetch_failed"
    /\ UNCHANGED <<fragments, splitVars, compileVars, callVars, flowVars>>

\* line 378: the next element of the list comprehension
RenderBlock ==
    /\ pc = "render"
    /\ Len(fragments) < Len(blocks)
    /\ LET result == BlockToText(blocks[Len(fragments) + 1])
       IN  /\ result.raised = ""
           /\ fragments' = Append(fragments, result.text)
    /\ UNCHANGED <<pc, markdown, splitVars, compileVars, callVars, flowVars>>

\* lines 378-380: _block_to_text raises, get_page_content returns ""
RenderRaises ==
    /\ pc = "render"
    /\ Len(fragments) < Len(blocks)
    /\ BlockToText(blocks[Len(fragments) + 1]).raised # ""
    /\ markdown' = <<>>
    /\ pc' = "render_raised"
    /\ UNCHANGED <<fragments, splitVars, compileVars, callVars, flowVars>>

\* line 378: "\n\n".join
RenderJoin ==
    /\ pc = "render"
    /\ Len(fragments) = Len(blocks)
    /\ markdown' = Join(fragments, <<NL, NL>>)
    /\ pc' = "rendered"
    /\ UNCHANGED <<fragments, splitVars, compileVars, callVars, flowVars>>

NextRender == FetchChildren \/ FetchFails \/ RenderBlock \/ RenderRaises \/ RenderJoin

(***************************************************************************)
(* Inputs of compile.                                                      *)
(***************************************************************************)
\* the lines a line document is made of
LineSamples ==
    {<<>>, <<"a">>, <<"b", " ", " ">>, <<"#", " ", "A">>, <<"#", "#", " ", "B">>,
     <<"#", "#", "#", " ", "C">>, <<"-", " ", "a">>, <<"*", " ", "a">>, <<">", " ", "q">>,
     <<"1", ".", " ", "a">>, <<BT, BT, BT>>, <<BT, BT, BT, "p", "y", "t", "h", "o", "n">>,
     <<BT, BT, BT, "m", "e", "r", "m", "a", "i", "d">>, <<"x", BS, "n", "y">>}

\* documents that probe single rules of the compiler: markers without their
\* space, indented markers, escape sequences, the documents of the tests
ExtraDocuments ==
    {<<"#", "x">>, <<" ", "#", " ", "A">>, <<"#">>, <<"#", " ", " ">>, <<"-", " ">>,
     <<"1", ".">>, <<".", " ", "a">>, <<"1", "a">>, <<">", "q">>, <<BT, BT>>,
     <<" ", " ", BT, BT, BT>>,
     <<BT, BT, BT, " ", " ", "P", "y", "t", "h", "o", "n", " ", " ", NL, "y">>,
     <<BT, BT, BT, "M", "E", "R", "M", "A", "I", "D", NL, "x", NL, BT, BT, BT>>,
     <<"a", BS, "n", "#", " ", "A">>, <<BS, BS, "n">>, <<"x", BS, DQ, "y">>, <<BS>>,
     <<"a", BS, BS, BS, "n", "b">>, <<"#", "?", "A">>,
     <<NL, "#", "#", " ", "A", NL, NL, "b", NL, NL, BT, BT, BT, "m", "e", "r", "m", "a", "i", "d", NL, "g", "r", "a", "p", "h", " ", "T", "D", NL, " ", " ", " ", " ", "A", "[", "S", "]", " ", "-", "-", ">", " ", "B", "[", "E", "]", NL, BT, BT, BT, NL, NL, "c", NL>>,
     <<BT, BT, BT, "m", "e", "r", "m", "a", "i", "d", NL, "g", "r", "a", "p", "h", " ", "L", "R", NL, " ", " ", " ", " ", "A", "[", "X", "]", " ", "-", "-", ">", " ", "B", "[", "Y", "]", NL, " ", " ", " ", " ", "B", " ", "-", "-", ">", " ", "C", "[", "Z", "]", NL, BT, BT, BT>>,
     <<BT, BT, BT, "m", "e", "r", "m", "a", "i", "d", NL, "A", " ", "-", "-", ">", " ", "B", NL, BT, BT, BT>>,
     <<BT, BT, BT, "m", "e", "r", "m", "a", "i", "d", NL, "s", "u", "b", "g", "r", "a", "p", "h", " ", "s", NL, BT, BT, BT>>,
     <<BT, BT, BT, "j", "s", NL, "g", "r", "a", "p", "h", " ", "T", "D", NL, BT, BT, BT>>}

\* bodies of fenced code blocks
CodeBodies ==
    {<<>>, <<"a">>, <<"x", " ", "=", " ", "1">>, <<" ", "a", " ">>, <<"a", NL, "b">>,
     <<NL>>, <<"a", NL, NL, "b">>, <<"#", " ", "A">>, <<BT, BT, BT>>,
     <<"a", NL, BT, BT, BT, NL, "b">>, <<"a", BT, BT, BT>>, <<"a", BS, "n", "b">>,
     <<"a", BS, BS, "b">>, <<"s", "a", "y", " ", BS, DQ, "h", "i", BS, DQ>>,
     <<"g", "r", "a", "p", "h", " ", "T", "D">>, <<"f", "(", "x", ")">>,
     <<"A", " ", "-", "-", ">", " ", "B">>, <<"s", "u", "b", "g", "r", "a", "p", "h">>}

\* bodies of fenced diagram blocks, each with an arrow
DiagramBodies ==
    {<<"A", " ", "-", "-", ">", " ", "B">>, <<"A", " ", "-", ">", " ", "B">>,
     <<"g", "r", "a", "p", "h", " ", "T", "D", NL, "A", " ", "-", "-", ">", " ", "B">>,
     <<"g", "r", "a", "p", "h", " ", "L", "R", NL, " ", " ", " ", " ", "A", "[", "X", "]", " ", "-", "-", ">", " ", "B", "[", "Y", "]">>,
     <<"a", "-", "-", ">", "b", NL, BT, BT, BT, NL, "c">>,
     <<"A", " ", "-", "-", ">", " ", "B", BS, "n", "C">>,
     <<" ", " ", "A", " ", "-", "-", ">", " ", "B", " ", " ">>,
     <<"A", NL, NL, "B", " ", "-", "-", ">", " ", "C">>,
     <<"x", NL, "s", "u", "b", "g", "r", "a", "p", "h", " ", "s", NL, "A", " ", "-", "-", ">", " ", "B">>}

\* fence labels outside the keys of notion_langs
OtherLabels ==
    {<<>>, <<"t", "e", "x", "t">>, <<"P", "y", "t", "h", "o", "n">>,
     <<"P", "Y", "T", "H", "O", "N">>, <<"u", "n", "k", "n", "o", "w", "n">>,
     <<"m", "e", "r", "m", "a", "i", "d">>, <<"M", "e", "r", "m", "a", "i", "d">>}

\* fence labels: the keys of notion_langs and some others
FenceLabels == {p[1] : p \in notion_langs} \cup OtherLabels

\* texts around the 2000-character limit
LongBodies ==
    {Rep("a", 2000), Rep("a", 2001), Rep("a", 5000),
     Rep("a", 1995) \o <<";">> \o Rep("a", 100),
     Rep("a", 1900) \o <<NL, NL>> \o Rep("a", 300),
     Rep("a", 1500) \o <<NL>> \o Rep("a", 1500),
     Rep("a", 1990) \o <<".", " ">> \o Rep("b", 2500)}

LongPrefixes ==
    {<<>>, <<"#", " ">>, <<"#", "#", "#", " ">>, <<"-", " ">>, <<">", " ">>, <<"b", NL>>}

LongLabels == {<<>>, s_text, s_python, s_js, s_mermaid}

\* documents of at most MaxLines lines
LineDocuments == {Join(ls, <<NL>>) : ls \in SeqsUpTo(LineSamples, MaxLines)}

\* one fenced block: opening fence with label, body, closing fence
Fenced(label, body) == FENCE \o label \o <<NL>> \o body \o <<NL>> \o FENCE

FencedDocuments ==
    {Fenced(label, body) : label \in FenceLabels, body \in CodeBodies \cup DiagramBodies}

LongDocuments ==
    {prefix \o body : prefix \in LongPrefixes, body \in LongBodies}
    \cup {Fenced(label, body) : label \in LongLabels, body \in LongBodies}
    \cup {FENCE \o label \o <<NL>> \o body : label \in {s_text, s_mermaid}, body \in LongBodies}

Documents == LineDocuments \cup ExtraDocuments \cup FencedDocuments \cup LongDocuments

(***************************************************************************)
(* The pipeline: a document is compiled, its blocks become the children of *)
(* the page, and get_page_content renders them.                            *)
(***************************************************************************)
Init ==
    /\ pc = "compile_entry"
    /\ content \in Documents
    /\ lines = <<>> /\ i = 0 /\ current_paragraph = <<>>
    /\ blocks = <<>> /\ origin = <<>> /\ para_origin = -1
    /\ code_text = <<>> /\ max_length = 0 /\ remaining = <<>> /\ chunks = <<>>
    /\ fragments = <<>> /\ markdown = <<>>
    /\ calls = <<>> /\ frames = <<>> /\ log = <<>>
    /\ CreateIdle /\ PublishIdle

Next == NextCompile \/ NextRender

Spec == Init /\ [][Next]_vars

(***************************************************************************)
(* get_page_content on the children of any page.                           *)
(***************************************************************************)
s_url == <<"h", "t", "t", "p", ":", "/", "/", "u">>
s_bulb == <<"U+1F4CA">>

SampleCode ==
    {Block("code", body, lang) :
        body \in {<<"x">>, <<"g", "r", "a", "p", "h", " ", "T", "D">>,
                  <<"A", " ", "-", "-", ">", " ", "B">>},
        lang \in {s_python, s_javascript, s_plain_text, s_dart, s_mermaid, s_cplusplus,
                  Absent, <<"J", "a", "v", "a", "S", "c", "r", "i", "p", "t">>}}

SampleText ==
    {Block(type, <<"t">>, Absent) :
        type \in {"paragraph", "heading_1", "heading_2", "heading_3",
                  "bulleted_list_item", "numbered_list_item", "quote", "to_do",
                  "callout", "divider", "toggle", "synct_atomic_block", "embed"}}
    \cup {Block("paragraph", <<>>, Absent),
          Block("paragraph", notice_mermaid \o <<":", " ">> \o notice_rendered, Absent),
          Block("paragraph", notice_mermaid, Absent),
          [Block("to_do", <<"t">>, Absent) EXCEPT !.checked = TRUE],
          [Block("callout", <<"t">>, Absent) EXCEPT !.emoji = s_bulb],
          [Block("divider", <<>>, Absent) EXCEPT !.rich = FALSE],
          [Block("embed", <<>>, Absent) EXCEPT !.rich = FALSE],
          [Block("paragraph", <<"t">>, Absent) EXCEPT !.present = FALSE],
          [Block("code", <<"x">>, s_javascript) EXCEPT !.present = FALSE]}

SampleImage ==
    {[Block("image", <<>>, Absent) EXCEPT
          !.rich = FALSE, !.image_type = t, !.external_url = e, !.file_url = f] :
        t \in {"external", "file", ""}, e \in {<<>>, s_url}, f \in {<<>>, s_url}}

SampleTable ==
    {[Block("table", <<>>, Absent) EXCEPT !.rich = FALSE, !.rows = r] :
        r \in {<<>>,
               <<[present |-> TRUE, cells |-> <<<<"h">>, <<" ", "k", " ">>>>],
                 [present |-> TRUE, cells |-> <<<<"1">>, <<"2">>>>]>>,
               <<[present |-> FALSE, cells |-> <<>>],
                 [present |-> TRUE, cells |-> <<<<"1">>>>]>>,
               <<[present |-> TRUE, cells |-> <<>>]>>}}

SampleBlocks == SampleCode \cup SampleText \cup SampleImage \cup SampleTable

InitRender ==
    /\ pc = "stored"
    /\ blocks \in SeqsUpTo(SampleBlocks, MaxBlocks)
    /\ content = <<>> /\ lines = <<>> /\ i = 0 /\ current_paragraph = <<>>
    /\ origin = <<>> /\ para_origin = -1
    /\ code_text = <<>> /\ max_length = 0 /\ remaining = <<>> /\ chunks = <<>>
    /\ fragments = <<>> /\ markdown = <<>>
    /\ calls = <<>> /\ frames = <<>> /\ log = <<>>
    /\ CreateIdle /\ PublishIdle

SpecRender == InitRender /\ [][NextRender]_vars

(***************************************************************************)
(* Claims about the chunking utility, checked under SpecSplit.             *)
(***************************************************************************)
\* the rule that chooses the split point of an iteration on rem
RuleUsed(rem, maxlen) ==
    LET cc == Slice(rem, 0, maxlen)
    IN  IF AboveFraction(RFind(cc, <<NL, NL>>), 80, maxlen) THEN "double_newline"
        ELSE IF AboveFraction(RFind(cc, <<";">>), 85, maxlen) THEN "semicolon"
        ELSE IF PunctSplit(cc, maxlen) # -1 THEN "punctuation"
        ELSE IF NewlineSplit(cc, maxlen) # -1 THEN "newline"
        ELSE "hard_cut"

\* C1: when split returns, its chunks concatenated in order are exactly the
\* input text; in the loop the chunks taken so far followed by the remaining
\* text are the input text.
ChunkConcatIdentity ==
    /\ pc = "split_done" => Concat(chunks) = code_text
    /\ pc = "split_loop" => Concat(chunks) \o remaining = code_text

\* C1 witness: split has returned several chunks, the first of them cut at a
\* natural boundary (shorter than max_length although text followed it)
ChunkConcatWitness ==
    /\ pc = "split_done"
    /\ Len(chunks) >= 2
    /\ Len(chunks[1]) < max_length
    /\ RuleUsed(code_text, max_length) # "hard_cut"

\* C2: every chunk, whichever rule chose its end, has length <= max_length.
ChunkSizeBound ==
    \A k \in 1..Len(chunks) : Len(chunks[k]) <= max_length

\* C2 witness: split has returned a chunk of exactly max_length characters
\* whose end a natural-boundary rule chose, and a hard-cut chunk as well
ChunkSizeWitness ==
    /\ pc = "split_done"
    /\ Len(chunks) >= 3
    /\ \E k \in 1..(Len(chunks) - 1) :
          /\ Len(chunks[k]) = max_length
          /\ RuleUsed(Concat(SubSeq(chunks, k, Len(chunks))), max_length) # "hard_cut"
    /\ \E k \in 1..(Len(chunks) - 1) :
          RuleUsed(Concat(SubSeq(chunks, k, Len(chunks))), max_length) = "hard_cut"

(***************************************************************************)
(* Claims about compile and render, checked under Spec and SpecRender.     *)
(***************************************************************************)
\* the compile allow-list: the keys of notion_langs
AllowList == {p[1] : p \in notion_langs}

\* doc is an opening fence with a label, a body and a closing fence
IsFencedDocument(doc) ==
    LET nl == Find(doc, <<NL>>)
    IN  /\ StartsWith(doc, FENCE)
        /\ nl >= 3
        /\ Len(doc) >= nl + 5
        /\ SubSeq(doc, Len(doc) - 3, Len(doc)) = <<NL>> \o FENCE

LabelOf(doc) == Slice(doc, 3, Find(doc, <<NL>>))
BodyOf(doc) == Slice(doc, Find(doc, <<NL>>) + 1, Len(doc) - 4)

\* the fence label render gives to the storage tag compile gives to label
Canonical(label) ==
    DictGet(lang_map, DictGet(notion_langs, label, s_plain_text), s_text)

HasEscape(t) ==
    Contains(t, <<BS, "n">>) \/ Contains(t, <<BS, DQ>>) \/ Contains(t, <<BS, BS>>)

HasFenceLine(t) ==
    LET ls == Split(t, <<NL>>) IN \E k \in 1..Len(ls) : StartsWith(ls[k], FENCE)

\* the transform compile-then-render has ended, by a return or by an exception
Finished == pc \in {"rendered", "render_raised"}

\* C3 as stated: for any body of at most 2000 characters and any label of the
\* allow-list, compiling the fenced block and rendering the blocks gives the
\* fenced block back, with the label canonicalized through the two tables.
RoundTripPlainCode ==
    (/\ Finished
     /\ IsFencedDocument(content)
     /\ LabelOf(content) \in AllowList
     /\ Len(BodyOf(content)) <= 2000)
    => /\ pc = "rendered"
       /\ markdown = Fenced(Canonical(LabelOf(content)), BodyOf(content))

\* The round trip restricted to the inputs on which it holds: the label is
\* not stored as javascript (js, javascript), the body has no escape
\* sequence (backslash followed by n, a double quote or a backslash) and no
\* line of the body starts with a triple backtick.
RoundTripRestricted ==
    (/\ Finished
     /\ IsFencedDocument(content)
     /\ LabelOf(content) \in AllowList \ {s_js, s_javascript}
     /\ Len(BodyOf(content)) <= 2000
     /\ ~HasEscape(BodyOf(content))
     /\ ~HasFenceLine(BodyOf(content)))
    => /\ pc = "rendered"
       /\ markdown = Fenced(Canonical(LabelOf(content)), BodyOf(content))

\* a state of the restricted round trip: a block labelled shell with a body of several lines came back
\* labelled bash with the same body
RoundTripReached ==
    /\ pc = "rendered"
    /\ IsFencedDocument(content)
    /\ LabelOf(content) = s_shell
    /\ BodyOf(content) = <<"a", NL, NL, "b">>
    /\ markdown = Fenced(s_bash, BodyOf(content))

\* C4: for a diagram source with an arrow pattern, compiling the fenced block
\* labelled mermaid and rendering the block gives back a fenced block labelled
\* mermaid with the same body.
DiagramRoundTrip ==
    (/\ Finished
     /\ IsFencedDocument(content)
     /\ LabelOf(content) = s_mermaid
     /\ MatchesArrow(BodyOf(content)))
    => /\ pc = "rendered"
       /\ markdown = Fenced(s_mermaid, BodyOf(content))

\* C5: every block compile emits carries at most 2000 characters of text.
PayloadCeiling ==
    \A k \in 1..Len(blocks) : Len(blocks[k].text) <= 2000

\* the texts of the last n blocks of bs, concatenated
TailText(bs, n) == Concat([k \in 1..n |-> bs[Len(bs) - n + k].text])

\* C6: no step of compile drops characters: when the paragraph accumulator is
\* flushed, paragraph blocks appended in that step hold the whole joined
\* text, and when a fence is compiled, the code blocks appended hold the whole
\* payload.
NoSilentTruncation ==
    [][/\ (current_paragraph # <<>> /\ current_paragraph' = <<>>)
            => \E n \in 1..(Len(blocks') - Len(blocks)) :
                   /\ \A k \in 1..n : blocks'[Len(blocks) + k].type = "paragraph"
                   /\ Concat([k \in 1..n |-> blocks'[Len(blocks) + k].text])
                          = Join(current_paragraph, <<" ">>)
       /\ (pc = "scan" /\ i < Len(lines) /\ StartsWith(LineAt(lines, i), FENCE))
            => \E n \in 1..(Len(blocks') - Len(blocks)) :
                   /\ \A k \in 1..n : blocks'[Len(blocks') - n + k].type = "code"
                   /\ TailText(blocks', n) = FenceCode(lines, i)
      ]_vars

\* the indices of the blocks that line o of the document produced
BlocksOf(o) == {k \in 1..Len(origin) : origin[k] = o}

\* line o opens a fence that is not a diagram and whose payload exceeds 2000
IsOversizedFence(o) ==
    /\ StartsWith(LineAt(lines, o), FENCE)
    /\ ~IsMermaidFence(LineAt(lines, o))
    /\ Len(FenceCode(lines, o)) > 2000

\* C7: an oversized ordinary fence gives one code block per chunk of
\* split(payload, 2000), adjacent and in order, all with the mapped tag of
\* the label, their bodies concatenated being the payload; and 5000 identical
\* characters labelled text give three blocks of 2000, 2000 and 1000
\* characters tagged plain text.
OversizedCodeSplitting ==
    /\ \A o \in {origin[k] : k \in 1..Len(origin)} :
          IsOversizedFence(o) =>
              LET payload == FenceCode(lines, o)
                  cs == SplitCodeAtBoundaries(payload, 2000)
                  first == SetMin(BlocksOf(o))
                  tag == MapLanguage(FenceLang(LineAt(lines, o)))
              IN  /\ BlocksOf(o) = first..(first + Len(cs) - 1)
                  /\ \A n \in 1..Len(cs) :
                        /\ blocks[first + n - 1].type = "code"
                        /\ blocks[first + n - 1].text = cs[n]
                        /\ blocks[first + n - 1].language = tag
                  /\ Len(cs) >= 2
                  /\ Concat([n \in 1..Len(cs) |-> blocks[first + n - 1].text]) = payload
    /\ (pc = "stored" /\ content = Fenced(s_text, Rep("a", 5000)))
          => /\ Len(blocks) = 3
             /\ \A k \in 1..3 : blocks[k].type = "code" /\ blocks[k].language = s_plain_text
             /\ blocks[1].text = Rep("a", 2000)
             /\ blocks[2].text = Rep("a", 2000)
             /\ blocks[3].text = Rep("a", 1000)

\* C7 witness: the document of 5000 identical characters has been compiled,
\* and so has a payload that split cuts at a natural boundary
OversizedCodeWitness ==
    /\ pc = "stored"
    /\ \/ content = Fenced(s_text, Rep("a", 5000)) /\ Len(blocks) = 3
       \/ /\ content = Fenced(s_python, Rep("a", 1995) \o <<";">> \o Rep("a", 100))
          /\ Len(blocks) = 2
          /\ Len(blocks[1].text) = 1996

\* C8: compile returns for every text and render returns a string for every
\* block; no state is reached by an exception, and no block of a compiled
\* document makes _block_to_text raise.
Totality ==
    /\ pc # "render_raised"
    /\ pc = "stored" => \A k \in 1..Len(blocks) : BlockToText(blocks[k]).raised = ""

\* the order of the blocks compile emits: by source line, a paragraph before
\* the block of the line that flushed it, only the chunks of one fence sharing
\* a line, and these chunks in text order
CompileOrder ==
    /\ Len(origin) = Len(blocks)
    /\ \A k \in 1..(Len(origin) - 1) :
          /\ origin[k] <= origin[k + 1]
          /\ origin[k] = origin[k + 1]
                => blocks[k].type = "code" /\ blocks[k + 1].type = "code"
    /\ \A k \in 1..Len(origin) :
          /\ origin[k] >= 0
          /\ origin[k] < i
          /\ current_paragraph # <<>> => origin[k] < para_origin
          /\ blocks[k].type = "code"
                => /\ StartsWith(LineAt(lines, origin[k]), FENCE)
                   /\ BlocksOf(origin[k]) =
                          SetMin(BlocksOf(origin[k]))..SetMax(BlocksOf(origin[k]))
                   /\ TailText(SubSeq(blocks, 1, SetMax(BlocksOf(origin[k]))),
                               Cardinality(BlocksOf(origin[k])))
                          = FenceCode(lines, origin[k])

\* C9: blocks are emitted in the order of the source lines that produce them,
\* and render emits one fragment per block in block order.
BlockOrder ==
    /\ CompileOrder
    /\ \A k \in 1..Len(fragments) : fragments[k] = BlockToText(blocks[k]).text
    /\ Finished => Len(fragments) = Len(blocks)

\* C10: render gives exactly one fragment per block and its output is the
\* fragments joined by a blank line: n blocks, n fragments, n - 1 separators.
RenderContract ==
    pc \in {"rendered", "render_raised"} =>
        /\ Len(fragments) = Len(blocks)
        /\ markdown = Join(fragments, <<NL, NL>>)
        /\ Len(blocks) >= 1 =>
              Len(markdown) = Len(Concat(fragments)) + 2 * (Len(blocks) - 1)

\* line o opens a fence whose declared language is mermaid in any case
IsDiagramFence(o) ==
    /\ StartsWith(LineAt(lines, o), FENCE)
    /\ ToLower(Strip(From(LineAt(lines, o), 3))) = s_mermaid

IsNumberedLine(line) ==
    /\ Len(line) >= 3
    /\ IsDigit(line[1])
    /\ line[2] = "."
    /\ line[3] = " "

\* C12: scanning a line outside a fence that starts with a digit followed by
\* '. ' flushes the pending paragraph and appends one numbered_list_item
\* block with the item text; the line does not go to the accumulator.
NumberedItems ==
    [][(pc = "scan" /\ i < Len(lines) /\ IsNumberedLine(LineAt(lines, i)))
          => /\ current_paragraph' = <<>>
             /\ Len(blocks') = Len(FlushParagraph(blocks, current_paragraph)) + 1
             /\ blocks'[Len(blocks')].type = "numbered_list_item"
             /\ blocks'[Len(blocks')].text = Strip(From(LineAt(lines, i), 2))
      ]_vars

\* a non-blank line with none of the markers: fence, heading, bullet,
\* numbered item, quote
IsPlainLine(line) ==
    /\ line # <<>>
    /\ ~StartsWith(line, FENCE)
    /\ ~StartsWith(line, <<"#", " ">>)
    /\ ~StartsWith(line, <<"#", "#", " ">>)
    /\ ~StartsWith(line, <<"#", "#", "#", " ">>)
    /\ ~StartsWith(line, <<"-", " ">>)
    /\ ~StartsWith(line, <<"*", " ">>)
    /\ ~StartsWith(line, <<">", " ">>)
    /\ ~IsNumberedLine(line)

\* the last line of the run of plain lines that starts at line o
RunEnd(o) ==
    SetMax({e \in o..(Len(lines) - 1) :
               \A j \in o..e : IsPlainLine(LineAt(lines, j))})

\* the lines o..e, right-stripped, joined by single spaces
RunText(o, e) == Join([n \in 1..(e - o + 1) |-> LineAt(lines, o + n - 1)], <<" ">>)

\* C13: every paragraph block is the whole of one run of consecutive plain
\* lines, right-stripped and joined by single spaces; the accumulator holds
\* the plain lines scanned since the last flush, and is empty once compile
\* has returned, so no line is in two paragraphs.
ParagraphAccumulation ==
    /\ \A k \in 1..Len(origin) :
          blocks[k].type = "paragraph" =>
              LET o == origin[k]
              IN  /\ IsPlainLine(LineAt(lines, o))
                  /\ o > 0 => ~IsPlainLine(LineAt(lines, o - 1))
                  /\ RunEnd(o) < i
                  /\ blocks[k].text = RunText(o, RunEnd(o))
                  /\ \A n \in 1..Len(origin) :
                        (n # k /\ blocks[n].type = "paragraph")
                            => (origin[n] < o \/ origin[n] > RunEnd(o))
    /\ (pc = "scan" /\ current_paragraph # <<>>)
          => /\ \A j \in para_origin..(i - 1) : IsPlainLine(LineAt(lines, j))
             /\ current_paragraph = [n \in 1..(i - para_origin) |-> LineAt(lines, para_origin + n - 1)]
    /\ pc \notin {"compile_entry", "scan"} => current_paragraph = <<>>

\* the heading level the markers '# ', '## ', '### ' give a line, or 0
HeadingLevel(line) ==
    IF StartsWith(line, <<"#", " ">>) THEN 1
    ELSE IF StartsWith(line, <<"#", "#", " ">>) THEN 2
    ELSE IF StartsWith(line, <<"#", "#", "#", " ">>) THEN 3
    ELSE 0

HeadingType(level) ==
    CASE level = 1 -> "heading_1" [] level = 2 -> "heading_2" [] OTHER -> "heading_3"

\* the document '# A', '## B', '### C' on three lines
ThreeHeadings ==
    <<"#", " ", "A", NL, "#", "#", " ", "B", NL, "#", "#", "#", " ", "C">>

\* C14: scanning a line outside a fence that starts with '# ', '## ' or
\* '### ' appends one heading block of level 1, 2 or 3 whose text is the
\* rest of the line trimmed; and the three-line example compiles to exactly
\* the headings A, B, C of levels 1, 2, 3.
HeadingLevels ==
    /\ []((pc = "stored" /\ content = ThreeHeadings)
            => /\ Len(blocks) = 3
               /\ \A k \in 1..3 : blocks[k].type = HeadingType(k)
               /\ blocks[1].text = <<"A">>
               /\ blocks[2].text = <<"B">>
               /\ blocks[3].text = <<"C">>)
    /\ [][(pc = "scan" /\ i < Len(lines) /\ HeadingLevel(lines[i + 1]) > 0)
            => LET level == HeadingLevel(lines[i + 1])
               IN  /\ Len(blocks') = Len(FlushParagraph(blocks, current_paragraph)) + 1
                   /\ blocks'[Len(blocks')].type = HeadingType(level)
                   /\ blocks'[Len(blocks')].text = Strip(From(lines[i + 1], level + 1))
         ]_vars

\* body is ordinary code: its first line starts with no diagram keyword, and
\* it holds no 'subgraph', no arrow pattern and no bracketed-label node
IsOrdinaryCode(body) ==
    LET stripped == Strip(body)
    IN  /\ ~StartsWithKeyword(stripped)
        /\ ~Contains(ToLower(stripped), s_subgraph)
        /\ ~MatchesArrow(stripped)
        /\ ~MatchesNode(stripped, "[", "]")
        /\ ~MatchesNode(stripped, "(", ")")
        /\ ~MatchesNode(stripped, "{", "}")

\* C15: a code block stored as javascript whose body is ordinary code renders
\* as a fenced block labelled javascript with the body verbatim.
OrdinaryJavascript ==
    \A k \in 1..Len(blocks) :
        (/\ blocks[k].present
         /\ blocks[k].type = "code"
         /\ blocks[k].language = s_javascript
         /\ IsOrdinaryCode(blocks[k].text))
        => /\ k <= Len(fragments) => fragments[k] = Fenced(s_javascript, blocks[k].text)
           /\ Finished => (pc = "rendered" /\ Len(fragments) = Len(blocks))

\* the storage tags render's table knows
RenderKeys == {p[1] : p \in lang_map}

\* tag survives one render and compile: it is a key of lang_map, and the label
\* render writes for it is compiled to the same tag
IsStableTag(tag) ==
    /\ tag \in RenderKeys
    /\ DictGet(notion_langs, ToLower(DictGet(lang_map, tag, s_text)), s_plain_text) = tag

\* C16: the storage tag compile gives a fence labelled from its allow-list is
\* a key of lang_map, and compiling the label render produces for it gives
\* the same tag again.
BidirectionalTable ==
    (/\ pc \notin {"compile_entry", "scan"}
     /\ IsFencedDocument(content)
     /\ LabelOf(content) \in AllowList)
    => \A k \in 1..Len(blocks) :
           blocks[k].type = "code" => IsStableTag(blocks[k].language)

\* line o opens a fence and no later line starts with a triple backtick
IsUnclosedFence(o) ==
    /\ StartsWith(LineAt(lines, o), FENCE)
    /\ \A j \in (o + 1)..(Len(lines) - 1) : ~StartsWith(lines[j + 1], FENCE)

\* C17: the blocks of an unclosed fence are code blocks, the last blocks of
\* the document, and their texts together are all the lines after the opening
\* line, verbatim and joined by newlines; the scan index is then past the
\* last line, so the loop is left, nothing is pending and compile returns.
UnclosedFence ==
    \A o \in {origin[k] : k \in 1..Len(origin)} :
        IsUnclosedFence(o) =>
            /\ SetMax(BlocksOf(o)) = Len(blocks)
            /\ \A k \in BlocksOf(o) : blocks[k].type = "code"
            /\ TailText(blocks, Cardinality(BlocksOf(o)))
                   = Join(SubSeq(lines, o + 2, Len(lines)), <<NL>>)
            /\ i = Len(lines) + 1
            /\ current_paragraph = <<>>
            /\ pc \in {"scan", "stored", "render", "rendered", "render_raised",
                       "fetch_failed"}

\* C17 witness: an unclosed python fence followed by two lines, one with
\* trailing blanks, has been compiled to one block holding both lines
UnclosedFenceWitness ==
    /\ pc = "stored"
    /\ lines = <<FENCE \o s_python, <<"a">>, <<"b", " ", " ">>>>
    /\ Len(blocks) = 1
    /\ blocks[1].type = "code"
    /\ blocks[1].text = <<"a", NL, "b", " ", " ">>

\* b cannot be converted faithfully: a code block whose storage tag is not in
\* render's table (and is not the diagram carrier in another case), or an
\* image block with neither an external nor a file URL
IsLossyCode(b) ==
    /\ b.present /\ b.type = "code"
    /\ ToLower(b.language) # s_javascript
    /\ (IF b.language = Absent THEN s_plain_text ELSE b.language) \notin RenderKeys

IsLossyImage(b) ==
    /\ b.present /\ b.type = "image"
    /\ b.external_url = <<>> /\ b.file_url = <<>>

\* C18: when a block of the page is lossy, get_page_content still returns the
\* joined fragments: the lossy block has its default fragment (a fence
\* labelled text, or the empty string) and every other block has its own.
LossyConversionLocal ==
    (Finished /\ \E k \in 1..Len(blocks) : IsLossyCode(blocks[k]) \/ IsLossyImage(blocks[k]))
    => /\ pc = "rendered"
       /\ Len(fragments) = Len(blocks)
       /\ markdown = Join(fragments, <<NL, NL>>)
       /\ \A k \in 1..Len(blocks) :
             /\ IsLossyCode(blocks[k]) => fragments[k] = Fenced(s_text, blocks[k].text)
             /\ IsLossyImage(blocks[k]) => fragments[k] = <<>>
             /\ fragments[k] = BlockToText(blocks[k]).text

\* C19: no chunk that split returns is the empty string, for any text, the
\* empty text and texts of a multiple of max_length characters included.
NoEmptyChunk ==
    pc = "split_done" => \A k \in 1..Len(chunks) : chunks[k] # <<>>

(***************************************************************************)
(* Two calls on one NotionPublisher object, interleaved.  The locals of a  *)
(* call (lines, i, current_paragraph, blocks; the list of the              *)
(* comprehension) live in the frame of the call; the object's attributes   *)
(* are not written by either method, and the only thing both calls write   *)
(* is the module's logger.                                                 *)
(***************************************************************************)
MaxCallLines == 2   \* lines of a document compiled by one of the two calls

Calls == {1, 2}

\* the frame that holds the locals of call c: every call has its own
FrameOfShared(c) == 1

FrameOf(c) == c

EmptyFrame ==
    [lines |-> <<>>, i |-> 0, current_paragraph |-> <<>>, blocks |-> <<>>,
     fragments |-> <<>>]

\* lines 171-177: the locals at the start of _convert_to_blocks
CompileFrame(text) ==
    [EmptyFrame EXCEPT !.lines = Split(Unescape(text), <<NL>>)]

\* line 378: the locals at the start of the comprehension
RenderFrame(bs) == [EmptyFrame EXCEPT !.blocks = bs]

\* lines 185-316: one iteration of the scan loop on the locals f
ScanLine(f) ==
    LET line == LineAt(f.lines, f.i)
        flushed == FlushParagraph(f.blocks, f.current_paragraph)
    IN  IF line = <<>>
        THEN [f EXCEPT !.blocks = flushed, !.current_paragraph = <<>>, !.i = @ + 1]
        ELSE IF StartsWith(line, FENCE)
        THEN [f EXCEPT
                !.blocks = flushed \o
                    (IF IsMermaidFence(line)
                     THEN MermaidBlocks(FenceCode(f.lines, f.i))
                     ELSE CodeBlocks(FenceCode(f.lines, f.i),
                                     MapLanguage(FenceLang(line)))),
                !.current_paragraph = <<>>,
                !.i = FenceEnd(f.lines, f.i) + 1]
        ELSE IF LineType(line) # "text"
        THEN [f EXCEPT !.blocks = StructuralBlocks(f.blocks, f.current_paragraph, line),
                       !.current_paragraph = <<>>, !.i = @ + 1]
        ELSE [f EXCEPT !.current_paragraph = Append(@, line), !.i = @ + 1]

\* lines 257 and 626: the records an iteration of the scan loop logs
ScanLogs(f) ==
    LET line == LineAt(f.lines, f.i)
    IN  IF /\ StartsWith(line, FENCE)
           /\ ~IsMermaidFence(line)
           /\ Len(FenceCode(f.lines, f.i)) > max_code_length
        THEN 2 ELSE 0

\* line 445: the record _block_to_text logs for a block
RenderLogs(b) ==
    IF b.present /\ b.type = "code"
       /\ IsMermaid(IF b.language = Absent THEN s_plain_text ELSE b.language, b.text) = "yes"
    THEN 1 ELSE 0

\* the lines of the documents the two calls compile
CallLines ==
    {<<>>, <<"a">>, <<"#", " ", "A">>, FENCE, FENCE \o s_mermaid}

CallDocuments == {Join(ls, <<NL>>) : ls \in SeqsUpTo(CallLines, MaxCallLines)}

\* the blocks of the pages the two calls render
CallBlocks ==
    {Block("paragraph", <<"t">>, Absent),
     Block("code", <<"g", "r", "a", "p", "h", " ", "T", "D">>, s_javascript),
     Block("code", <<"x">>, s_javascript)}

CallPages == SeqsUpTo(CallBlocks, MaxBlocks)

CallInputs ==
    {[kind |-> "compile", text |-> d, page |-> <<>>] : d \in CallDocuments}
    \cup {[kind |-> "render", text |-> <<>>, page |-> bs] : bs \in CallPages}

InitCalls ==
    /\ calls \in [Calls -> {[input |-> x, status |-> "idle", result |-> <<>>] :
                               x \in CallInputs}]
    /\ frames = [c \in Calls |-> EmptyFrame]
    /\ log = <<>>
    /\ pc = "calls"
    /\ content = <<>> /\ lines = <<>> /\ i = 0 /\ current_paragraph = <<>>
    /\ blocks = <<>> /\ origin = <<>> /\ para_origin = -1
    /\ code_text = <<>> /\ max_length = 0 /\ remaining = <<>> /\ chunks = <<>>
    /\ fragments = <<>> /\ markdown = <<>>
    /\ CreateIdle /\ PublishIdle

\* n records of call c appended to the log
Logged(c, n) == log \o [k \in 1..n |-> c]

\* lines 168-177 and 378: the call is entered and its locals are bound
CallEnter(c) ==
    /\ calls[c].status = "idle"
    /\ frames' = [frames EXCEPT ![FrameOf(c)] =
                     IF calls[c].input.kind = "compile"
                     THEN CompileFrame(calls[c].input.text)
                     ELSE RenderFrame(calls[c].input.page)]
    /\ calls' = [calls EXCEPT ![c].status = "running"]
    /\ UNCHANGED <<log, pc, splitVars, compileVars, renderVars, flowVars>>

\* lines 185-316: one iteration of the scan loop of a compile call
CallScan(c) ==
    /\ calls[c].status = "running"
    /\ calls[c].input.kind = "compile"
    /\ LET f == frames[FrameOf(c)]
       IN  /\ f.i < Len(f.lines)
           /\ frames' = [frames EXCEPT ![FrameOf(c)] = ScanLine(f)]
           /\ log' = Logged(c, ScanLogs(f))
    /\ UNCHANGED <<calls, pc, splitVars, compileVars, renderVars, flowVars>>

\* lines 318-319 and the return: the final flush
CallReturnBlocks(c) ==
    /\ calls[c].status = "running"
    /\ calls[c].input.kind = "compile"
    /\ LET f == frames[FrameOf(c)]
       IN  /\ f.i >= Len(f.lines)
           /\ calls' = [calls EXCEPT
                           ![c].status = "returned",
                           ![c].result = FlushParagraph(f.blocks, f.current_paragraph)]
    /\ UNCHANGED <<frames, log, pc, splitVars, compileVars, renderVars, flowVars>>

\* line 378: the next element of the comprehension of a render call
CallRenderBlock(c) ==
    /\ calls[c].status = "running"
    /\ calls[c].input.kind = "render"
    /\ LET f == frames[FrameOf(c)]
       IN  /\ Len(f.fragments) < Len(f.blocks)
           /\ LET b == f.blocks[Len(f.fragments) + 1]
                  out == BlockToText(b)
              IN  IF out.raised = ""
                  THEN /\ frames' = [frames EXCEPT
                                        ![FrameOf(c)].fragments = Append(@, out.text)]
                       /\ log' = Logged(c, RenderLogs(b))
                       /\ UNCHANGED calls
                  ELSE /\ calls' = [calls EXCEPT ![c].status = "raised",
                                                 ![c].result = <<out.raised>>]
                       /\ UNCHANGED <<frames, log>>
    /\ UNCHANGED <<pc, splitVars, compileVars, renderVars, flowVars>>

\* line 378: the join of the fragments
CallRenderJoin(c) ==
    /\ calls[c].status = "running"
    /\ calls[c].input.kind = "render"
    /\ LET f == frames[FrameOf(c)]
       IN  /\ Len(f.fragments) >= Len(f.blocks)
           /\ calls' = [calls EXCEPT ![c].status = "returned",
                                     ![c].result = Join(f.fragments, <<NL, NL>>)]
    /\ UNCHANGED <<frames, log, pc, splitVars, compileVars, renderVars, flowVars>>

NextCalls ==
    \E c \in Calls :
        \/ CallEnter(c) \/ CallScan(c) \/ CallReturnBlocks(c)
        \/ CallRenderBlock(c) \/ CallRenderJoin(c)

SpecCalls == InitCalls /\ [][NextCalls]_vars

(***************************************************************************)
(* Claims about concurrent calls, checked under SpecCalls.                 *)
(***************************************************************************)
\* the blocks a compile call gives when it runs alone from the locals f
RECURSIVE ScanAlone(_)
ScanAlone(f) ==
    IF f.i >= Len(f.lines) THEN FlushParagraph(f.blocks, f.current_paragraph)
    ELSE ScanAlone(ScanLine(f))

\* what a render call gives when it runs alone: the joined fragments, or the
\* exception of the first block that raises
RenderAlone(bs) ==
    LET raising == {k \in 1..Len(bs) : BlockToText(bs[k]).raised # ""}
    IN  IF raising # {}
        THEN [status |-> "raised", result |-> <<BlockToText(bs[SetMin(raising)]).raised>>]
        ELSE [status |-> "returned",
              result |-> Join([k \in 1..Len(bs) |-> BlockToText(bs[k]).text], <<NL, NL>>)]

\* the outcome of the call with input x when no other call runs
Alone(x) ==
    IF x.kind = "compile"
    THEN [status |-> "returned", result |-> ScanAlone(CompileFrame(x.text))]
    ELSE RenderAlone(x.page)

\* C20: whatever the interleaving of two compile or render calls on one
\* object, each call that has ended has the outcome it has when run alone.
ConcurrentCallsIndependent ==
    \A c \in Calls :
        calls[c].status \in {"returned", "raised"}
            => /\ calls[c].status = Alone(calls[c].input).status
               /\ calls[c].result = Alone(calls[c].input).result

\* C20 witness: both calls have returned on different inputs after running
\* interleaved: two render calls whose log records alternate, and a compile
\* call ended while the other was in the middle of its scan
ConcurrentCallsWitness ==
    \/ /\ calls[1].status = "returned" /\ calls[2].status = "returned"
       /\ calls[1].input.kind = "render" /\ calls[2].input.kind = "render"
       /\ calls[1].input # calls[2].input
       /\ log = <<1, 2, 1>>
    \/ /\ calls[1].status = "returned" /\ calls[2].status = "running"
       /\ calls[1].input.kind = "compile" /\ calls[2].input.kind = "compile"
       /\ calls[1].input # calls[2].input
       /\ frames[2].i = 1 /\ Len(frames[2].lines) = 2
       /\ frames[2].current_paragraph # <<>>
       /\ Len(calls[1].result) = 2

(***************************************************************************)
(* Further claims about the chunking utility, checked under SpecSplit.     *)
(***************************************************************************)
\* C21: the loop of split terminates: every iteration appends a chunk of at
\* least one character and leaves a strictly shorter remaining text, so the
\* length of the remaining text is a variant of the loop.
SplitTerminates ==
    [][(pc = "split_loop" /\ Len(remaining) > max_length)
          => /\ SplitPos(remaining, max_length) >= 1
             /\ Len(chunks') = Len(chunks) + 1
             /\ Len(chunks'[Len(chunks')]) >= 1
             /\ Len(remaining') < Len(remaining)
             /\ Len(remaining') >= 0
      ]_vars

\* C21 witness: a call whose loop ran at least three times has returned
SplitTerminatesWitness ==
    /\ pc = "split_done"
    /\ Len(chunks) >= 4
    /\ max_length >= 2
    /\ remaining # <<>>
    /\ Len(chunks[Len(chunks)]) < max_length

\* the window of an iteration: the first max_length characters of remaining
Window == Slice(remaining, 0, max_length)
\* an iteration of the loop is about to run
Iterating == pc = "split_loop" /\ Len(remaining) > max_length
\* the window holds none of ';', '.', ':', '!' and no newline above 90%
NoLaterCandidate ==
    /\ \A k \in 1..Len(Window) : Window[k] \notin {";", ".", ":", "!"}
    /\ ~AboveFraction(RFind(Window, <<NL>>), 90, max_length)

Marks == <<".", ":", "!">>
\* the window holds no double newline and no semicolon
NoEarlierCandidate ==
    /\ RFind(Window, <<NL, NL>>) = -1
    /\ RFind(Window, <<";">>) = -1
\* neither the double newline nor the semicolon of the window is far enough
EarlierRulesFail ==
    /\ ~(100 * RFind(Window, <<NL, NL>>) > 80 * max_length)
    /\ ~(100 * RFind(Window, <<";">>) > 85 * max_length)
\* C23 as stated: mark m has an occurrence in the window at an offset of at
\* least 85% of max_length that is followed in the text by a letter, digit or
\* whitespace
MarkStated(m) ==
    \E k \in 1..Len(Window) :
        /\ Window[k] = m
        /\ 100 * (k - 1) >= 85 * max_length
        /\ k + 1 <= Len(remaining)
        /\ IsAlnum(remaining[k + 1]) \/ IsSpace(remaining[k + 1])
\* the last occurrence of mark m in the window is above 85% of max_length and
\* is followed inside the window by a letter, digit or whitespace
MarkQualifies(m) ==
    LET o == RFind(Window, <<m>>)
    IN  /\ 100 * o > 85 * max_length
        /\ o + 2 <= Len(Window)
        /\ IsAlnum(Window[o + 2]) \/ IsSpace(Window[o + 2])

NoBoundaryCandidate ==
    /\ RFind(Window, <<NL, NL>>) = -1
    /\ \A k \in 1..Len(Window) : Window[k] \notin {";", ".", ":", "!"}
\* rules a to c yield no split point
BoundaryRulesFail ==
    /\ EarlierRulesFail
    /\ \A n \in 1..3 : ~MarkQualifies(Marks[n])

\* C24 as stated: with nothing for rules a to c in the window, a last newline
\* at an offset of at least 90% of max_length ends the chunk, and otherwise the
\* chunk is the window.
NewlineInclusive ==
    [][(Iterating /\ NoBoundaryCandidate)
          => LET o == RFind(Window, <<NL>>)
                 chunk == chunks'[Len(chunks')]
             IN  IF o # -1 /\ 100 * o >= 90 * max_length
                 THEN Len(chunk) = o + 1
                 ELSE chunk = Window
      ]_vars

\* C24: when rules a to c yield no split point, the chunk ends right after
\* the last newline of the window if that newline lies strictly above 90% of
\* max_length, and otherwise the chunk is exactly the first max_length
\* characters of the remaining text.
NewlineRule ==
    [][(Iterating /\ BoundaryRulesFail)
          => LET o == RFind(Window, <<NL>>)
                 chunk == chunks'[Len(chunks')]
             IN  IF 100 * o > 90 * max_length
                 THEN chunk = Slice(remaining, 0, o + 1)
                 ELSE chunk = Slice(remaining, 0, max_length)
      ]_vars

\* a first chunk shorter than the window that ends with a single newline, and
\* a later chunk cut at max_length in the middle of letters
NewlineWitness ==
    /\ pc = "split_done" /\ Len(chunks) >= 2
    /\ LET n == Len(chunks[1])
       IN  /\ n >= 2 /\ n < max_length
           /\ chunks[1][n] = NL /\ chunks[1][n - 1] = "a"
           /\ code_text[n + 1] = "a"

\* C27: when split returns for a text longer than max_length, every chunk
\* except the last one is longer than 80% of max_length; in the loop every
\* chunk taken so far is.
ChunkLowerBound ==
    (pc \in {"split_loop", "split_done"} /\ Len(code_text) > max_length)
        => \A k \in 1..Len(chunks) :
              (pc = "split_loop" \/ k < Len(chunks))
                 => 100 * Len(chunks[k]) > 80 * max_length

\* split has returned two chunks or more, the first one cut after a
\* semicolon before the end of the window
ChunkLowerBoundWitness ==
    /\ pc = "split_done" /\ Len(chunks) >= 2
    /\ Len(chunks[1]) < max_length
    /\ chunks[1][Len(chunks[1])] = ";"

(***************************************************************************)
(* Further claims about render and compile.                                *)
(***************************************************************************)
\* the language of a code block as line 391 reads it
StoredLanguage(b) == IF b.language = Absent THEN s_plain_text ELSE b.language
\* a code block whose stored language is neither the carrier tag nor mermaid
IsOffCarrier(b) ==
    /\ b.present /\ b.type = "code"
    /\ ToLower(StoredLanguage(b)) # s_javascript
    /\ StoredLanguage(b) # s_mermaid

\* C25: a rendered code block whose stored language is neither javascript
\* (in any letter case) nor mermaid is a fence with the label of lang_map, or
\* text, around its unchanged content, and never a fence labelled mermaid,
\* whatever the content.
DiagramDetectionConfined ==
    \A k \in 1..Len(fragments) :
        IsOffCarrier(blocks[k])
           => /\ fragments[k] = Fenced(DictGet(lang_map, StoredLanguage(blocks[k]), s_text),
                                       blocks[k].text)
              /\ ~StartsWith(fragments[k], FENCE \o s_mermaid)

\* a page is rendered that holds a python block and a block without language
\* whose contents start with a diagram keyword or hold an arrow
DiagramDetectionWitness ==
    /\ pc = "rendered"
    /\ \E k \in 1..Len(blocks) :
          /\ IsOffCarrier(blocks[k]) /\ blocks[k].language = s_python
          /\ StartsWithKeyword(blocks[k].text)
    /\ \E k \in 1..Len(blocks) :
          /\ IsOffCarrier(blocks[k]) /\ blocks[k].language = Absent
          /\ MatchesArrow(blocks[k].text)

\* the unescaping C26 describes: one pass from left to right in which each
\* escape sequence is replaced once
RECURSIVE UnescapeOnce(_)
UnescapeOnce(t) ==
    IF t = <<>> THEN <<>>
    ELSE IF Len(t) >= 2 /\ t[1] = BS /\ t[2] \in {"n", DQ, BS}
         THEN <<(IF t[2] = "n" THEN NL ELSE t[2])>> \o UnescapeOnce(From(t, 2))
         ELSE <<t[1]>> \o UnescapeOnce(From(t, 1))

\* C26: once compile has split its input, the lines are those of the input
\* with each escaped newline, escaped quote and escaped backslash replaced
\* once, so that an escaped backslash followed by n is a backslash followed
\* by n on one line.
UnescapeFirst ==
    (pc # "compile_entry" /\ HasEscape(content))
        => lines = Split(UnescapeOnce(content), <<NL>>)

(***************************************************************************)
(* create_article with _append_children and update_status: one call that   *)
(* creates the page, appends the compiled blocks in batches and changes    *)
(* the status.  Every request to the Notion API either succeeds or raises  *)
(* (line 54); a block is written as its position in the list compile       *)
(* returned.                                                               *)
(***************************************************************************)
MaxChildren == 120  \* most blocks of an article handed to create_article

\* line 332
batch_size == 50

\* line 133: the status of a new page
status_draft == "U+CD08U+C548 U+C791U+C131U+C911"
\* lines 94 and 160: the status of a page that waits for review
status_in_review == "U+AC80U+D1A0U+C911"

\* line 143: the lists compile can return, as positions
ChildrenLists == {[k \in 1..n |-> k] : n \in 0..MaxChildren}

InitCreate ==
    /\ pc = "create_entry"
    /\ children \in ChildrenLists
    /\ batch_start = 0 /\ returned = "none"
    /\ page = [exists |-> FALSE, status |-> "", stored |-> <<>>]
    /\ content = <<>> /\ lines = <<>> /\ i = 0 /\ current_paragraph = <<>>
    /\ blocks = <<>> /\ origin = <<>> /\ para_origin = -1
    /\ code_text = <<>> /\ max_length = 0 /\ remaining = <<>> /\ chunks = <<>>
    /\ fragments = <<>> /\ markdown = <<>>
    /\ calls = <<>> /\ frames = <<>> /\ log = <<>>
    /\ PublishIdle

\* line 334: the batch that starts at index start
Batch(cs, start) == Slice(cs, start, start + batch_size)

\* line 333: another batch follows the one that starts at index start, or none
AfterBatch(cs, start) ==
    IF start + batch_size < Len(cs) THEN "append" ELSE "update_status"

\* lines 152-157: POST /pages succeeds
CreatePage ==
    /\ pc = "create_entry"
    /\ page' = [exists |-> TRUE, status |-> status_draft, stored |-> <<>>]
    /\ batch_start' = 0
    /\ pc' = IF children # <<>> THEN "append" ELSE "update_status"
    /\ UNCHANGED <<children, returned>>
    /\ UNCHANGED <<splitVars, compileVars, renderVars, callVars, publishVars>>

\* lines 152 and 164-166: POST /pages raises, create_article returns {}
CreatePageFails ==
    /\ pc = "create_entry"
    /\ returned' = "empty"
    /\ pc' = "create_returned"
    /\ UNCHANGED <<children, batch_start, page>>
    /\ UNCHANGED <<splitVars, compileVars, renderVars, callVars, publishVars>>

\* lines 333-336: one batch is appended to the page
AppendBatch ==
    /\ pc = "append"
    /\ batch_start < Len(children)
    /\ page' = [page EXCEPT !.stored = @ \o Batch(children, batch_start)]
    /\ batch_start' = batch_start + batch_size
    /\ pc' = AfterBatch(children, batch_start)
    /\ UNCHANGED <<children, returned>>
    /\ UNCHANGED <<splitVars, compileVars, renderVars, callVars, publishVars>>

\* lines 333-338: the request of one batch raises, the error is logged and
\* the loop goes on
AppendBatchFails ==
    /\ pc = "append"
    /\ batch_start < Len(children)
    /\ batch_start' = batch_start + batch_size
    /\ pc' = AfterBatch(children, batch_start)
    /\ UNCHANGED <<children, returned, page>>
    /\ UNCHANGED <<splitVars, compileVars, renderVars, callVars, publishVars>>

\* lines 160-162 and 342-346: the status changes, the page id is returned
UpdateStatus ==
    /\ pc = "update_status"
    /\ page' = [page EXCEPT !.status = status_in_review]
    /\ returned' = "page"
    /\ pc' = "create_returned"
    /\ UNCHANGED <<children, batch_start>>
    /\ UNCHANGED <<splitVars, compileVars, renderVars, callVars, publishVars>>

\* lines 160-162 and 347-348: the request raises, update_status returns False,
\* create_article ignores it and returns the page id
UpdateStatusFails ==
    /\ pc = "update_status"
    /\ returned' = "page"
    /\ pc' = "create_returned"
    /\ UNCHANGED <<children, batch_start, page>>
    /\ UNCHANGED <<splitVars, compileVars, renderVars, callVars, publishVars>>

NextCreate ==
    \/ CreatePage \/ CreatePageFails \/ AppendBatch \/ AppendBatchFails
    \/ UpdateStatus \/ UpdateStatusFails

SpecCreate == InitCreate /\ [][NextCreate]_vars

\* C28: the status is changed to in-review only at the end of the call, after
\* every batch has been tried, and a page that create_article returned in
\* that status holds every block of the article, in compile order.
DraftWorkflow ==
    /\ (page.exists /\ pc \in {"append", "update_status"}) => page.status = status_draft
    /\ page.status = status_in_review
          => (pc = "create_returned" /\ batch_start >= Len(children))
    /\ (pc = "create_returned" /\ returned = "page" /\ page.status = status_in_review)
          => page.stored = children

(***************************************************************************)
(* GitPublisher.publish_all_pending and publish_article                    *)
(* (src/src/publisher_git.py).  An article is written as its position in  *)
(* the list the query returned.  Writing the post file, each git command   *)
(* and each request to the Notion API either succeeds or raises; the       *)
(* update methods of NotionPublisher catch what their request raises.      *)
(***************************************************************************)
MaxArticles == 3    \* most articles the query for review-done articles returns

\* notion_publisher.py line 352: the status publish_all_pending queries for
status_review_done == "U+AC80U+D1A0 U+C644U+B8CC"
\* publisher_git.py line 87
status_published == "U+AC8CU+C2DC U+C644U+B8CC"

\* publisher_git.py line 154: the lists the query can return
ArticleLists == {[k \in 1..n |-> k] : n \in 0..MaxArticles}

InitPublish ==
    /\ pc = "publish_entry"
    /\ publish_articles \in ArticleLists
    /\ article_no = 0 /\ results = <<>> /\ trace = <<>>
    /\ repo = [worktree |-> {}, index |-> {}, local |-> {}, remote |-> {}]
    /\ database = [a \in 1..Len(publish_articles) |->
                      [status |-> status_review_done, published_url |-> ""]]
    /\ content = <<>> /\ lines = <<>> /\ i = 0 /\ current_paragraph = <<>>
    /\ blocks = <<>> /\ origin = <<>> /\ para_origin = -1
    /\ code_text = <<>> /\ max_length = 0 /\ remaining = <<>> /\ chunks = <<>>
    /\ fragments = <<>> /\ markdown = <<>>
    /\ calls = <<>> /\ frames = <<>> /\ log = <<>>
    /\ CreateIdle

\* the article publish_article is working on
Article == publish_articles[article_no]

\* one step of publish_article as the trace records it
Step(step, ok) == [article |-> Article, step |-> step, ok |-> ok]

\* publish_article with a failed push treated like a successful one
AfterStepIgnoringPush(step, ok) ==
    CASE step = "write" -> IF ok THEN "git_commit" ELSE "failed"
      [] step = "commit" -> IF ok THEN "git_push" ELSE "failed"
      [] step = "push" -> "update_url"
      [] step = "url" -> "set_published"
      [] step = "published" -> "article_returned"
      [] step = "revert" -> "article_returned"

\* publisher_git.py lines 66-96: where publish_article goes after a step; an
\* exception of lines 76-82 leads to the handler of line 91, the methods of
\* lines 86, 87 and 94 return whatever their request did
AfterStep(step, ok) ==
    CASE step = "write" -> IF ok THEN "git_commit" ELSE "failed"
      [] step = "commit" -> IF ok THEN "git_push" ELSE "failed"
      [] step = "push" -> IF ok THEN "update_url" ELSE "failed"
      [] step = "url" -> "set_published"
      [] step = "published" -> "article_returned"
      [] step = "revert" -> "article_returned"

\* publisher_git.py lines 153-158
PublishAllStart ==
    /\ pc = "publish_entry"
    /\ results' = <<>>
    /\ article_no' = IF publish_articles # <<>> THEN 1 ELSE 0
    /\ pc' = IF publish_articles # <<>> THEN "create_post" ELSE "publish_returned"
    /\ UNCHANGED <<publish_articles, trace, repo, database>>
    /\ UNCHANGED <<splitVars, compileVars, renderVars, callVars, createVars>>

\* publisher_git.py lines 76 and 98-131: the post file is written, or not
CreateBlogPost ==
    /\ pc = "create_post"
    /\ \E ok \in BOOLEAN :
          /\ repo' = IF ok THEN [repo EXCEPT !.worktree = @ \cup {Article}] ELSE repo
          /\ trace' = Append(trace, Step("write", ok))
          /\ pc' = AfterStep("write", ok)
    /\ UNCHANGED <<publish_articles, article_no, results, database>>
    /\ UNCHANGED <<splitVars, compileVars, renderVars, callVars, createVars>>

\* publisher_git.py lines 79 and 133-139: git add, then git commit; either
\* command can fail
GitCommit ==
    /\ pc = "git_commit"
    /\ \E outcome \in {"ok", "add_failed", "commit_failed"} :
          /\ repo' = CASE outcome = "ok" ->
                            [repo EXCEPT !.local = @ \cup repo.index \cup repo.worktree,
                                         !.index = {}, !.worktree = {}]
                       [] outcome = "commit_failed" ->
                            [repo EXCEPT !.index = @ \cup repo.worktree, !.worktree = {}]
                       [] outcome = "add_failed" -> repo
          /\ trace' = Append(trace, Step("commit", outcome = "ok"))
          /\ pc' = AfterStep("commit", outcome = "ok")
    /\ UNCHANGED <<publish_articles, article_no, results, database>>
    /\ UNCHANGED <<splitVars, compileVars, renderVars, callVars, createVars>>

\* publisher_git.py lines 82 and 141-143: git push origin main
GitPush ==
    /\ pc = "git_push"
    /\ \E ok \in BOOLEAN :
          /\ repo' = IF ok THEN [repo EXCEPT !.remote = @ \cup repo.local, !.local = {}]
                     ELSE repo
          /\ trace' = Append(trace, Step("push", ok))
          /\ pc' = AfterStep("push", ok)
    /\ UNCHANGED <<publish_articles, article_no, results, database>>
    /\ UNCHANGED <<splitVars, compileVars, renderVars, callVars, createVars>>

\* publisher_git.py lines 85-86, notion_publisher.py lines 365-372
UpdatePublishedUrl ==
    /\ pc = "update_url"
    /\ \E ok \in BOOLEAN :
          /\ database' = IF ok THEN [database EXCEPT ![Article].published_url = "blog_url"]
                         ELSE database
          /\ trace' = Append(trace, Step("url", ok))
          /\ pc' = AfterStep("url", ok)
    /\ UNCHANGED <<publish_articles, article_no, results, repo>>
    /\ UNCHANGED <<splitVars, compileVars, renderVars, callVars, createVars>>

\* publisher_git.py lines 87-89, notion_publisher.py lines 340-348
SetPublished ==
    /\ pc = "set_published"
    /\ \E ok \in BOOLEAN :
          /\ database' = IF ok THEN [database EXCEPT ![Article].status = status_published]
                         ELSE database
          /\ trace' = Append(trace, Step("published", ok))
          /\ pc' = AfterStep("published", ok)
    /\ UNCHANGED <<publish_articles, article_no, results, repo>>
    /\ UNCHANGED <<splitVars, compileVars, renderVars, callVars, createVars>>

\* publisher_git.py lines 91-96, notion_publisher.py lines 340-348
RevertStatus ==
    /\ pc = "failed"
    /\ \E ok \in BOOLEAN :
          /\ database' = IF ok THEN [database EXCEPT ![Article].status = status_in_review]
                         ELSE database
          /\ trace' = Append(trace, Step("revert", ok))
          /\ pc' = AfterStep("revert", ok)
    /\ UNCHANGED <<publish_articles, article_no, results, repo>>
    /\ UNCHANGED <<splitVars, compileVars, renderVars, callVars, createVars>>

\* publisher_git.py lines 158-164: publish_article has returned, the result is
\* appended and the loop goes on
AppendResult ==
    /\ pc = "article_returned"
    /\ results' = Append(results, [success |-> TRUE, id |-> Article])
    /\ article_no' = IF article_no < Len(publish_articles) THEN article_no + 1
                     ELSE article_no
    /\ pc' = IF article_no < Len(publish_articles) THEN "create_post"
             ELSE "publish_returned"
    /\ UNCHANGED <<publish_articles, trace, repo, database>>
    /\ UNCHANGED <<splitVars, compileVars, renderVars, callVars, createVars>>

NextPublish ==
    \/ PublishAllStart \/ CreateBlogPost \/ GitCommit \/ GitPush
    \/ UpdatePublishedUrl \/ SetPublished \/ RevertStatus \/ AppendResult

SpecPublish == InitPublish /\ [][NextPublish]_vars

\* the steps publish_article has run for article a, in order
StepsOf(a) == SelectSeq(trace, LAMBDA r : r.article = a)
\* the order of the steps of a publication
StepOrder == <<"write", "commit", "push", "url", "published">>
\* publish_article has returned for article a
HasReturned(a) ==
    \/ a < article_no
    \/ a = article_no /\ pc \in {"article_returned", "publish_returned"}
\* the post of article a was written, committed and pushed by its publication
PublicationSucceeded(a) ==
    \A s \in {"write", "commit", "push"} :
        \E j \in 1..Len(StepsOf(a)) : StepsOf(a)[j].step = s /\ StepsOf(a)[j].ok

ResultReporting ==
    pc = "publish_returned"
        => /\ Len(results) = Len(publish_articles)
           /\ \A k \in 1..Len(results) :
                 /\ results[k].id = publish_articles[k]
                 /\ results[k].success <=> PublicationSucceeded(publish_articles[k])

====
